---------------------------- MODULE Spec2Model ----------------------------
(***************************************************************************)
(* A model of sketchy: the FNV hash kernel (hash.go), the count-min sketch *)
(* (fnvSketch), the rolling rate counter (rollingCounter) and the rollup   *)
(* counter (rollupCounter).                                                *)
(*                                                                         *)
(* Conventions.                                                            *)
(*  - A time.Time is an integer number of ticks, a time.Duration a signed  *)
(*    number of ticks; Second ticks make one time.Second.                  *)
(*  - A float64 is an exact rational [num, den] in lowest terms (den > 0). *)
(*  - A uint64 used for hashing is four 16-bit limbs, least significant    *)
(*    first, so that the FNV arithmetic is exact.  A sketch cell is an     *)
(*    unsigned integer of UintBits bits (wrapping), standing for uint64.   *)
(*  - A key is a sequence of bytes.                                        *)
(***************************************************************************)
EXTENDS Integers, Sequences, FiniteSets, TLC

(***************************************************************************)
(* Bounds of the model.                                                    *)
(***************************************************************************)
\* bits of a sketch cell (the code's cells are uint64)
UintBits == 3
\* clock readings are 0..MaxTime ticks
MaxTime == 4
\* query intervals are 0..MaxInterval ticks
MaxInterval == 4
\* deltas passed to Count on a rate counter are 0..MaxDelta
MaxDelta == 2
\* a bucket of a rate counter takes Counts while its deltas sum to at most MaxCount
MaxCount == 2
\* rolling counters are built with NumIntervals in 0..MaxNum
MaxNum == 2
\* rolling counters are built with Interval in 1..MaxCounterInterval ticks
MaxCounterInterval == 2
\* width and depth of every sketch: NewSketch(0.05, 0.8)
Width == 3
Depth == 2
\* the goroutines that call one counter concurrently
NumThreads == 2
\* the calls a goroutine makes on a rolling counter
MaxCalls == 2
\* the calls a goroutine makes on a rollup counter
MaxRaceCalls == 1

\* time.Second, in ticks
Second == 2

RECURSIVE Pow2(_)
Pow2(n) == IF n = 0 THEN 1 ELSE 2 * Pow2(n - 1)

\* the number of values of a 16-bit limb
Limb == Pow2(16)

\* the number of values of a sketch cell
UintMod == Pow2(UintBits)
\* math.MaxUint64 at the cell width
MaxUint == UintMod - 1

(***************************************************************************)
(* 64-bit unsigned arithmetic on limbs <<l0, l1, l2, l3>>.                 *)
(***************************************************************************)
Mul64(a, b) ==
  LET c0 == a[1] * b[1]
      c1 == a[1] * b[2] + a[2] * b[1] + (c0 \div Limb)
      c2 == a[1] * b[3] + a[2] * b[2] + a[3] * b[1] + (c1 \div Limb)
      c3 == a[1] * b[4] + a[2] * b[3] + a[3] * b[2] + a[4] * b[1] + (c2 \div Limb)
  IN  <<c0 % Limb, c1 % Limb, c2 % Limb, c3 % Limb>>

Add64(a, b) ==
  LET c0 == a[1] + b[1]
      c1 == a[2] + b[2] + (c0 \div Limb)
      c2 == a[3] + b[3] + (c1 \div Limb)
      c3 == a[4] + b[4] + (c2 \div Limb)
  IN  <<c0 % Limb, c1 % Limb, c2 % Limb, c3 % Limb>>

RECURSIVE XorBits(_, _, _)
XorBits(a, b, n) ==
  IF n = 0 THEN 0
  ELSE (((a % 2) + (b % 2)) % 2) + 2 * XorBits(a \div 2, b \div 2, n - 1)

\* k ^= uint64(b) for a byte b: only the low limb changes
XorByte64(k, b) == <<XorBits(k[1], b, 16), k[2], k[3], k[4]>>

\* x % m for a small m
Mod64(x, m) ==
  LET r3 == x[4] % m
      r2 == (r3 * Limb + x[3]) % m
      r1 == (r2 * Limb + x[2]) % m
  IN  (r1 * Limb + x[1]) % m

(***************************************************************************)
(* hash.go                                                                 *)
(***************************************************************************)
\* 14695981039346656037 = 0xcbf29ce484222325
fnvOffset64 == <<8997, 33826, 40164, 52210>>
\* 1099511628211 = 0x100000001b3
fnvPrime64 == <<435, 0, 256, 0>>

RECURSIVE multihashFrom(_, _, _)
multihashFrom(k, key, n) ==
  IF n > Len(key) THEN k
  ELSE multihashFrom(XorByte64(Mul64(k, fnvPrime64), key[n]), key, n + 1)

multihash(key) == multihashFrom(fnvOffset64, key, 1)

\* (v & 0xffffffff) + (v>>32)*uint64(index)
hash(k, index) ==
  Add64(<<k[1], k[2], 0, 0>>, Mul64(<<k[3], k[4], 0, 0>>, <<index, 0, 0, 0>>))

\* the element of a one-element set: The({e(x) : x \in {v}}) is e(v) with v
\* evaluated once
The(S) == CHOOSE x \in S : TRUE

(***************************************************************************)
(* float64 values as exact rationals.                                      *)
(***************************************************************************)
Abs(x) == IF x < 0 THEN -x ELSE x

RECURSIVE GCD(_, _)
GCD(a, b) == IF b = 0 THEN a ELSE GCD(b, a % b)

\* n/d in lowest terms, d # 0
Rat(n, d) ==
  LET g == GCD(Abs(n), Abs(d))
      s == IF d < 0 THEN -1 ELSE 1
  IN  [num |-> s * (n \div g), den |-> s * (d \div g)]

RatInt(n) == [num |-> n, den |-> 1]
RatAdd(x, y) == Rat(x.num * y.den + y.num * x.den, x.den * y.den)
RatMul(x, y) == Rat(x.num * y.num, x.den * y.den)
RatDiv(x, y) == Rat(x.num * y.den, x.den * y.num)
RatLess(x, y) == x.num * y.den < y.num * x.den

(***************************************************************************)
(* The count-min sketch (fnvSketch).                                       *)
(***************************************************************************)
\* a nil *fnvSketch
Nil == [Nil |-> TRUE]

\* the byte strings "", "a", "ab"
Keys == {<<>>, <<97>>, <<97, 98>>}
\* the keys counted on rate counters
RateKeys == {<<97>>, <<97, 98>>}

\* the parameters the counters are built with: epsilon = 1/20, delta = 4/5
Epsilon == Rat(1, 20)
Delta == Rat(4, 5)
DefaultEpsilon == Rat(999, 1000)
DefaultDelta == Rat(99, 100)

\* NewSketch.  math.Ceil(math.E / (1 - epsilon)) and
\* math.Ceil(math.Log(1 / (1 - delta))) are Width and Depth for the
\* parameters above.
NewSketch(epsilon, delta) ==
  [Epsilon |-> IF epsilon.num = 0 THEN DefaultEpsilon ELSE epsilon,
   Delta   |-> IF delta.num = 0 THEN DefaultDelta ELSE delta,
   Width   |-> Width,
   Depth   |-> Depth,
   Matrix  |-> [c \in 0 .. (Width * Depth - 1) |-> 0]]

\* j := uint(k.hash(i)) % r.Width
column(key, i, width) == Mod64(hash(multihash(key), i), width)

\* the columns of the modelled keys, computed once
Columns == [key \in Keys |-> [i \in 0 .. (Depth - 1) |-> column(key, i, Width)]]

\* r.Matrix[k] = uint64(delta): the cell set to the delta instead of raised by it
addCellAssign(v, delta) == delta % UintMod

\* r.Matrix[k] += uint64(delta)
addCell(v, delta) == (v + delta) % UintMod

\* the loop of fnvSketch.Count taking the minimum of the cells as they were
\* before the update
RECURSIVE countRowsStale(_, _, _, _, _)
countRowsStale(r, key, delta, i, min) ==
  IF i >= r.Depth THEN [sketch |-> r, ret |-> min]
  ELSE LET j == Columns[key][i]
           k == i * r.Width + j
           v == addCell(r.Matrix[k], delta)
       IN  countRowsStale([r EXCEPT !.Matrix[k] = v], key, delta, i + 1,
                          IF r.Matrix[k] < min THEN r.Matrix[k] ELSE min)

\* the loop of fnvSketch.Count from row i on
RECURSIVE countRows(_, _, _, _, _)
countRows(r, key, delta, i, min) ==
  IF i >= r.Depth THEN [sketch |-> r, ret |-> min]
  ELSE LET j == Columns[key][i]
           k == i * r.Width + j
           v == addCell(r.Matrix[k], delta)
       IN  countRows([r EXCEPT !.Matrix[k] = v], key, delta, i + 1,
                     IF v < min THEN v ELSE min)

\* fnvSketch.Count: the updated sketch and the returned estimate
sketchCount(r, key, delta) == countRows(r, key, delta, 0, MaxUint)

\* the loop of fnvSketch.Query keeping the larger cell (> for <)
RECURSIVE queryRowsMax(_, _, _, _)
queryRowsMax(r, key, i, min) ==
  IF i >= r.Depth THEN min
  ELSE LET j == Columns[key][i]
           v == r.Matrix[i * r.Width + j]
       IN  queryRowsMax(r, key, i + 1,
                        IF min = MaxUint \/ v > min THEN v ELSE min)

\* the loop of fnvSketch.Query from row i on
RECURSIVE queryRows(_, _, _, _)
queryRows(r, key, i, min) ==
  IF i >= r.Depth THEN min
  ELSE LET j == Columns[key][i]
           v == r.Matrix[i * r.Width + j]
       IN  queryRows(r, key, i + 1, IF v < min THEN v ELSE min)

\* fnvSketch.Query
sketchQuery(r, key) == queryRows(r, key, 0, MaxUint)

(***************************************************************************)
(* The timestamped sketch (sketchWithTime).                                *)
(***************************************************************************)
\* sketchWithTime.Count: the updated bucket and the returned estimate
bucketCount(b, key, delta) ==
  IF b.CountSketch = Nil THEN [bucket |-> b, ret |-> 0]
  ELSE LET c == sketchCount(b.CountSketch, key, delta)
       IN  [bucket |-> [b EXCEPT !.CountSketch = c.sketch], ret |-> c.ret]

\* sketchWithTime.Query
bucketQuery(b, key) ==
  IF b.CountSketch = Nil THEN 0 ELSE sketchQuery(b.CountSketch, key)

(***************************************************************************)
(* The rolling counter (rollingCounter).                                   *)
(***************************************************************************)
\* RollingCounter: no argument is checked
RollingCounter(epsilon, delta, interval, num) ==
  [Epsilon |-> epsilon, Delta |-> delta, Interval |-> interval,
   NumIntervals |-> num, buckets |-> <<>>]

\* the loop keeping a partly covered bucket's whole duration d (line 117 left
\* out)
RECURSIVE walkWholeDuration(_, _, _, _, _, _, _, _, _)
walkWholeDuration(rl, key, i, now, interval, intervalStart, latest, tc, td) ==
  IF ~(interval > 0 /\ i >= 1) THEN [tc |-> tc, td |-> td, stop |-> 0]
  ELSE
    LET bt == rl.buckets[i].Time
        d  == now - bt
    IN  IF d <= 0
        THEN walkWholeDuration(rl, key, i - 1, now, interval, intervalStart, latest, tc, td)
        ELSE
          LET n == IF i = Len(rl.buckets) /\ latest # 0
                   THEN latest
                   ELSE bucketQuery(rl.buckets[i], key)
          IN  IF intervalStart > bt
              THEN
                LET end0 == bt + rl.Interval
                    end  == IF end0 > now THEN now ELSE end0
                    d2   == end - intervalStart
                IN  IF d - d2 > rl.Interval
                    THEN [tc |-> tc, td |-> td, stop |-> i]
                    ELSE walkWholeDuration(rl, key, i - 1, bt, interval - d, intervalStart,
                              latest, RatAdd(tc, Rat(n * d2, d)),
                              td + d)
              ELSE walkWholeDuration(rl, key, i - 1, bt, interval - d, intervalStart,
                        latest, RatAdd(tc, RatInt(n)), td + d)

\* the loop ending at a bucket that starts at or after the cursor (break for
\* continue)
RECURSIVE walkSkipStops(_, _, _, _, _, _, _, _, _)
walkSkipStops(rl, key, i, now, interval, intervalStart, latest, tc, td) ==
  IF ~(interval > 0 /\ i >= 1) THEN [tc |-> tc, td |-> td, stop |-> 0]
  ELSE
    LET bt == rl.buckets[i].Time
        d  == now - bt
    IN  IF d <= 0
        THEN [tc |-> tc, td |-> td, stop |-> 0]
        ELSE
          LET n == IF i = Len(rl.buckets) /\ latest # 0
                   THEN latest
                   ELSE bucketQuery(rl.buckets[i], key)
          IN  IF intervalStart > bt
              THEN
                LET end0 == bt + rl.Interval
                    end  == IF end0 > now THEN now ELSE end0
                    d2   == end - intervalStart
                IN  IF d - d2 > rl.Interval
                    THEN [tc |-> tc, td |-> td, stop |-> i]
                    ELSE walkSkipStops(rl, key, i - 1, bt, interval - d, intervalStart,
                              latest, RatAdd(tc, Rat(n * d2, d)),
                              td + (now - intervalStart))
              ELSE walkSkipStops(rl, key, i - 1, bt, interval - d, intervalStart,
                        latest, RatAdd(tc, RatInt(n)), td + d)

\* the loop breaking off only at a bucket that ends at or before the window's
\* start
RECURSIVE walkStopsOutside(_, _, _, _, _, _, _, _, _)
walkStopsOutside(rl, key, i, now, interval, intervalStart, latest, tc, td) ==
  IF ~(interval > 0 /\ i >= 1) THEN [tc |-> tc, td |-> td, stop |-> 0]
  ELSE
    LET bt == rl.buckets[i].Time
        d  == now - bt
    IN  IF d <= 0
        THEN walkStopsOutside(rl, key, i - 1, now, interval, intervalStart, latest, tc, td)
        ELSE
          LET n == IF i = Len(rl.buckets) /\ latest # 0
                   THEN latest
                   ELSE bucketQuery(rl.buckets[i], key)
          IN  IF intervalStart > bt
              THEN
                LET end0 == bt + rl.Interval
                    end  == IF end0 > now THEN now ELSE end0
                    d2   == end - intervalStart
                IN  IF bt + rl.Interval <= intervalStart
                    THEN [tc |-> tc, td |-> td, stop |-> i]
                    ELSE walkStopsOutside(rl, key, i - 1, bt, interval - d, intervalStart,
                              latest, RatAdd(tc, Rat(n * d2, d)),
                              td + (now - intervalStart))
              ELSE walkStopsOutside(rl, key, i - 1, bt, interval - d, intervalStart,
                        latest, RatAdd(tc, RatInt(n)), td + d)

\* the loop counting at most the counter's interval for a wholly covered
\* bucket
RECURSIVE walkCapped(_, _, _, _, _, _, _, _, _)
walkCapped(rl, key, i, now, interval, intervalStart, latest, tc, td) ==
  IF ~(interval > 0 /\ i >= 1) THEN [tc |-> tc, td |-> td, stop |-> 0]
  ELSE
    LET bt == rl.buckets[i].Time
        d  == now - bt
    IN  IF d <= 0
        THEN walkCapped(rl, key, i - 1, now, interval, intervalStart, latest, tc, td)
        ELSE
          LET n == IF i = Len(rl.buckets) /\ latest # 0
                   THEN latest
                   ELSE bucketQuery(rl.buckets[i], key)
          IN  IF intervalStart > bt
              THEN
                LET end0 == bt + rl.Interval
                    end  == IF end0 > now THEN now ELSE end0
                    d2   == end - intervalStart
                IN  IF d - d2 > rl.Interval
                    THEN [tc |-> tc, td |-> td, stop |-> i]
                    ELSE walkCapped(rl, key, i - 1, bt, interval - d, intervalStart,
                              latest, RatAdd(tc, Rat(n * d2, d)),
                              td + (now - intervalStart))
              ELSE walkCapped(rl, key, i - 1, bt, interval - d, intervalStart,
                        latest, RatAdd(tc, RatInt(n)), td + (IF d > rl.Interval THEN rl.Interval ELSE d))

\* the loop measuring every bucket from the instant the walk started at (now =
\* rl.buckets[i].Time, line 122, left out)
RECURSIVE walkCursorFixed(_, _, _, _, _, _, _, _, _)
walkCursorFixed(rl, key, i, now, interval, intervalStart, latest, tc, td) ==
  IF ~(interval > 0 /\ i >= 1) THEN [tc |-> tc, td |-> td, stop |-> 0]
  ELSE
    LET bt == rl.buckets[i].Time
        d  == now - bt
    IN  IF d <= 0
        THEN walkCursorFixed(rl, key, i - 1, now, interval, intervalStart, latest, tc, td)
        ELSE
          LET n == IF i = Len(rl.buckets) /\ latest # 0
                   THEN latest
                   ELSE bucketQuery(rl.buckets[i], key)
          IN  IF intervalStart > bt
              THEN
                LET end0 == bt + rl.Interval
                    end  == IF end0 > now THEN now ELSE end0
                    d2   == end - intervalStart
                IN  IF d - d2 > rl.Interval
                    THEN [tc |-> tc, td |-> td, stop |-> i]
                    ELSE walkCursorFixed(rl, key, i - 1, now, interval - d, intervalStart,
                              latest, RatAdd(tc, Rat(n * d2, d)),
                              td + (now - intervalStart))
              ELSE walkCursorFixed(rl, key, i - 1, now, interval - d, intervalStart,
                        latest, RatAdd(tc, RatInt(n)), td + d)

\* the loop weighting a partly covered bucket by d/d2 (for d2/d)
RECURSIVE walkScaledUp(_, _, _, _, _, _, _, _, _)
walkScaledUp(rl, key, i, now, interval, intervalStart, latest, tc, td) ==
  IF ~(interval > 0 /\ i >= 1) THEN [tc |-> tc, td |-> td, stop |-> 0]
  ELSE
    LET bt == rl.buckets[i].Time
        d  == now - bt
    IN  IF d <= 0
        THEN walkScaledUp(rl, key, i - 1, now, interval, intervalStart, latest, tc, td)
        ELSE
          LET n == IF i = Len(rl.buckets) /\ latest # 0
                   THEN latest
                   ELSE bucketQuery(rl.buckets[i], key)
          IN  IF intervalStart > bt
              THEN
                LET end0 == bt + rl.Interval
                    end  == IF end0 > now THEN now ELSE end0
                    d2   == end - intervalStart
                IN  IF d - d2 > rl.Interval
                    THEN [tc |-> tc, td |-> td, stop |-> i]
                    ELSE walkScaledUp(rl, key, i - 1, bt, interval - d, intervalStart,
                              latest, RatAdd(tc, Rat(n * d, d2)),
                              td + (now - intervalStart))
              ELSE walkScaledUp(rl, key, i - 1, bt, interval - d, intervalStart,
                        latest, RatAdd(tc, RatInt(n)), td + d)

\* the loop of rollingCounter.query at bucket i, with the loop's variables;
\* stop is the bucket at which the loop broke off, 0 when it ran to its end
RECURSIVE walk(_, _, _, _, _, _, _, _, _)
walk(rl, key, i, now, interval, intervalStart, latest, tc, td) ==
  IF ~(interval > 0 /\ i >= 1) THEN [tc |-> tc, td |-> td, stop |-> 0]
  ELSE
    LET bt == rl.buckets[i].Time
        d  == now - bt
    IN  IF d <= 0
        THEN walk(rl, key, i - 1, now, interval, intervalStart, latest, tc, td)
        ELSE
          LET n == IF i = Len(rl.buckets) /\ latest # 0
                   THEN latest
                   ELSE bucketQuery(rl.buckets[i], key)
          IN  IF intervalStart > bt
              THEN
                LET end0 == bt + rl.Interval
                    end  == IF end0 > now THEN now ELSE end0
                    d2   == end - intervalStart
                IN  IF d - d2 > rl.Interval
                    THEN [tc |-> tc, td |-> td, stop |-> i]
                    ELSE walk(rl, key, i - 1, bt, interval - d, intervalStart,
                              latest, RatAdd(tc, Rat(n * d2, d)),
                              td + (now - intervalStart))
              ELSE walk(rl, key, i - 1, bt, interval - d, intervalStart,
                        latest, RatAdd(tc, RatInt(n)), td + d)

\* the totals of the loop of rollingCounter.query, started at the newest bucket
walked(rl, key, now, interval, latest) ==
  The({ [tc |-> w.tc, td |-> w.td] :
        w \in {walk(rl, key, Len(rl.buckets), now, interval, now - interval,
                    latest, RatInt(0), 0)} })

\* the bucket at which the loop of rollingCounter.query broke off (line 114),
\* 0 when it did not
stopped(rl, key, now, interval, latest) ==
  walk(rl, key, Len(rl.buckets), now, interval, now - interval, latest,
       RatInt(0), 0).stop

\* rollingCounter.query without its floor: the loop's totals, whatever td is
queryNoFloor(rl, key, now, interval, latest) ==
  walked(rl, key, now, interval, latest)

\* rollingCounter.query: (total count, total duration)
query(rl, key, now, interval, latest) ==
  The({ IF w.td < Second THEN [tc |-> RatInt(0), td |-> 0] ELSE w :
        w \in {walked(rl, key, now, interval, latest)} })

\* the rotation step with the capacity test off by one (> for >=)
rotateLate(rl, now) ==
  LET fresh == [CountSketch |->
                  NewSketch(IF rl.Epsilon.num = 0 THEN DefaultEpsilon ELSE rl.Epsilon,
                            IF rl.Delta.num = 0 THEN DefaultDelta ELSE rl.Delta),
                Time |-> now]
      n == Len(rl.buckets)
  IN  IF n = 0 THEN <<fresh>>
      ELSE IF now - rl.buckets[n].Time >= rl.Interval
           THEN IF n > rl.NumIntervals
                THEN Tail(rl.buckets) \o <<fresh>>
                ELSE Append(rl.buckets, fresh)
           ELSE rl.buckets

\* the rotation step starting the list over when it is full
rotateReset(rl, now) ==
  LET fresh == [CountSketch |->
                  NewSketch(IF rl.Epsilon.num = 0 THEN DefaultEpsilon ELSE rl.Epsilon,
                            IF rl.Delta.num = 0 THEN DefaultDelta ELSE rl.Delta),
                Time |-> now]
      n == Len(rl.buckets)
  IN  IF n = 0 THEN <<fresh>>
      ELSE IF now - rl.buckets[n].Time >= rl.Interval
           THEN IF n >= rl.NumIntervals
                THEN <<fresh>>
                ELSE Append(rl.buckets, fresh)
           ELSE rl.buckets

\* the rotation step taking the distance between now and the newest start,
\* whichever is later
rotateEitherWay(rl, now) ==
  LET fresh == [CountSketch |->
                  NewSketch(IF rl.Epsilon.num = 0 THEN DefaultEpsilon ELSE rl.Epsilon,
                            IF rl.Delta.num = 0 THEN DefaultDelta ELSE rl.Delta),
                Time |-> now]
      n == Len(rl.buckets)
  IN  IF n = 0 THEN <<fresh>>
      ELSE IF Abs(now - rl.buckets[n].Time) >= rl.Interval
           THEN IF n >= rl.NumIntervals
                THEN Tail(rl.buckets) \o <<fresh>>
                ELSE Append(rl.buckets, fresh)
           ELSE rl.buckets

\* the rotation step dropping the newest bucket of a full list, not the oldest
rotateDropNewest(rl, now) ==
  LET fresh == [CountSketch |->
                  NewSketch(IF rl.Epsilon.num = 0 THEN DefaultEpsilon ELSE rl.Epsilon,
                            IF rl.Delta.num = 0 THEN DefaultDelta ELSE rl.Delta),
                Time |-> now]
      n == Len(rl.buckets)
  IN  IF n = 0 THEN <<fresh>>
      ELSE IF now - rl.buckets[n].Time >= rl.Interval
           THEN IF n >= rl.NumIntervals
                THEN SubSeq(rl.buckets, 1, n - 1) \o <<fresh>>
                ELSE Append(rl.buckets, fresh)
           ELSE rl.buckets

\* the rotation step opening a bucket only past the interval (> for >=)
rotateStrict(rl, now) ==
  LET fresh == [CountSketch |->
                  NewSketch(IF rl.Epsilon.num = 0 THEN DefaultEpsilon ELSE rl.Epsilon,
                            IF rl.Delta.num = 0 THEN DefaultDelta ELSE rl.Delta),
                Time |-> now]
      n == Len(rl.buckets)
  IN  IF n = 0 THEN <<fresh>>
      ELSE IF now - rl.buckets[n].Time > rl.Interval
           THEN IF n >= rl.NumIntervals
                THEN Tail(rl.buckets) \o <<fresh>>
                ELSE Append(rl.buckets, fresh)
           ELSE rl.buckets

\* the buckets after the rotation step of rollingCounter.count
rotate(rl, now) ==
  LET fresh == [CountSketch |->
                  NewSketch(IF rl.Epsilon.num = 0 THEN DefaultEpsilon ELSE rl.Epsilon,
                            IF rl.Delta.num = 0 THEN DefaultDelta ELSE rl.Delta),
                Time |-> now]
      n == Len(rl.buckets)
  IN  IF n = 0 THEN <<fresh>>
      ELSE IF now - rl.buckets[n].Time >= rl.Interval
           THEN IF n >= rl.NumIntervals
                THEN Tail(rl.buckets) \o <<fresh>>
                ELSE Append(rl.buckets, fresh)
           ELSE rl.buckets

\* the counter with buckets bs, after Count(key, delta) on the newest of them,
\* and the estimate that Count returns
counted(rl, bs, key, delta) ==
  The({ [rl  |-> [rl EXCEPT !.buckets = [bs EXCEPT ![Len(bs)] = c.bucket]],
         ret |-> c.ret] :
        c \in {bucketCount(bs[Len(bs)], key, delta)} })

\* the write half of rollingCounter.count counting on the bucket whose span
\* holds now: the last bucket that starts at or before now, the newest when
\* there is none
updateInSpan(rl, key, delta, now) ==
  The({ The({ The({ [rl  |-> [rl EXCEPT !.buckets = [bs EXCEPT ![j] = c.bucket]],
                     ret |-> c.ret] :
                    c \in {bucketCount(bs[j], key, delta)} }) :
              j \in {IF \E i \in 1 .. Len(bs) : bs[i].Time <= now
                     THEN CHOOSE i \in 1 .. Len(bs) :
                            /\ bs[i].Time <= now
                            /\ \A h \in (i + 1) .. Len(bs) : bs[h].Time > now
                     ELSE Len(bs)} }) :
        bs \in {rotate(rl, now)} })

\* the write half of rollingCounter.count: the rotation, then Count on the
\* newest bucket
update(rl, key, delta, now) ==
  The({ counted(rl, bs, key, delta) : bs \in {rotate(rl, now)} })

\* rollingCounter.count handing the walk the delta instead of the updated
\* count of the newest bucket
countLatestDelta(rl, key, delta, now, interval) ==
  The({ The({ [rl |-> u.rl, tc |-> q.tc, td |-> q.td] :
              q \in {query(u.rl, key, now, interval, delta)} }) :
        u \in {update(rl, key, delta, now)} })

\* rollingCounter.count: the updated counter and the walk's result
count(rl, key, delta, now, interval) ==
  The({ The({ [rl |-> u.rl, tc |-> q.tc, td |-> q.td] :
              q \in {query(u.rl, key, now, interval, u.ret)} }) :
        u \in {update(rl, key, delta, now)} })

\* (tc / float64(d)) * float64(time.Second), 0 when d is 0
rate(tc, d) == IF d = 0 THEN RatInt(0) ELSE RatMul(RatDiv(tc, RatInt(d)), RatInt(Second))

\* rollingCounter.Query under the mutex: the returned rate
rollingQuery(rl, key, now, interval) ==
  IF Len(rl.buckets) = 0 THEN RatInt(0)
  ELSE LET q == query(rl, key, now, interval, 0) IN rate(q.tc, q.td)

\* rollingCounter.Count under the mutex: the updated counter and the rate
rollingCount(rl, key, delta, now, interval) ==
  LET c == count(rl, key, delta, now, interval)
  IN  [rl |-> c.rl, ret |-> rate(c.tc, c.td)]

(***************************************************************************)
(* The rollup counter (rollupCounter).                                     *)
(***************************************************************************)
\* Go's integer division (truncated toward zero) and remainder (the sign of
\* the dividend), b # 0
quot(a, b) ==
  LET q == Abs(a) \div Abs(b) IN IF (a < 0) = (b < 0) THEN q ELSE -q
rem(a, b) == a - b * quot(a, b)

\* the level RollupCounter builds from two adjacent durations
level(epsilon, delta, from, to) ==
  [Epsilon |-> epsilon, Delta |-> delta, Interval |-> from,
   NumIntervals |-> quot(to, from) + (IF rem(to, from) > 0 THEN 1 ELSE 0),
   buckets |-> <<>>]

\* RollupCounter refusing (by a panic) a list of fewer than two durations
rollupPanicsShort(durations) ==
  \/ Len(durations) < 2
  \/ \E i \in 1 .. (Len(durations) - 1) : durations[i] = 0

\* whether RollupCounter panics: make() with length -1, or a division by a
\* zero duration
rollupPanics(durations) ==
  \/ Len(durations) = 0
  \/ \E i \in 1 .. (Len(durations) - 1) : durations[i] = 0

\* RollupCounter, when it returns
RollupCounter(epsilon, delta, durations) ==
  [Levels |-> [i \in 1 .. (Len(durations) - 1) |->
                 level(epsilon, delta, durations[i], durations[i + 1])]]

\* the loop of rollupCounter.Query walking every level from the same instant
\* (now = now.Add(-d) left out)
RECURSIVE rollupQuerySameNow(_, _, _, _, _, _, _)
rollupQuerySameNow(r, key, i, now, interval, tc, td) ==
  IF i > Len(r.Levels) \/ interval <= 0 THEN [tc |-> tc, td |-> td]
  ELSE The({ rollupQuerySameNow(r, key, i + 1, now, interval - q.td,
                                RatAdd(tc, q.tc), td + q.td) :
             q \in {query(r.Levels[i], key, now, interval, 0)} })

\* the loop of rollupCounter.Query from level i on
RECURSIVE rollupQueryFrom(_, _, _, _, _, _, _)
rollupQueryFrom(r, key, i, now, interval, tc, td) ==
  IF i > Len(r.Levels) \/ interval <= 0 THEN [tc |-> tc, td |-> td]
  ELSE The({ rollupQueryFrom(r, key, i + 1, now - q.td, interval - q.td,
                             RatAdd(tc, q.tc), td + q.td) :
             q \in {query(r.Levels[i], key, now, interval, 0)} })

\* rollupCounter.Query: the totals the rate is computed from
rollupQuery(r, key, now, interval) ==
  rollupQueryFrom(r, key, 1, now, interval, RatInt(0), 0)

\* the loop of rollupCounter.Count leaving the loop, as Query does, once the
\* interval is used up
RECURSIVE rollupCountBreaking(_, _, _, _, _, _, _, _)
rollupCountBreaking(r, key, delta, i, now, interval, tc, td) ==
  IF i > Len(r.Levels) \/ interval <= 0 THEN [rc |-> r, tc |-> tc, td |-> td]
  ELSE The({ rollupCountBreaking([r EXCEPT !.Levels[i] = c.rl], key, delta,
                                 i + 1, now, interval - c.td,
                                 RatAdd(tc, c.tc), td + c.td) :
             c \in {count(r.Levels[i], key, delta, now, interval)} })

\* the loop of rollupCounter.Count from level i on
RECURSIVE rollupCountFrom(_, _, _, _, _, _, _, _)
rollupCountFrom(r, key, delta, i, now, interval, tc, td) ==
  IF i > Len(r.Levels) THEN [rc |-> r, tc |-> tc, td |-> td]
  ELSE LET iv == IF interval < 0 THEN 0 ELSE interval
       IN  The({ rollupCountFrom([r EXCEPT !.Levels[i] = c.rl], key, delta,
                                 i + 1, now, iv - c.td, RatAdd(tc, c.tc),
                                 td + c.td) :
                 c \in {count(r.Levels[i], key, delta, now, iv)} })

\* rollupCounter.Count: the updated counter and the totals
rollupCount(r, key, delta, now, interval) ==
  rollupCountFrom(r, key, delta, 1, now, interval, RatInt(0), 0)

(***************************************************************************)
(* State.                                                                  *)
(***************************************************************************)
VARIABLES
  sketch,   \* a count-min sketch used on its own
  rl,       \* a rolling counter used on its own
  rc,       \* a rollup counter
  ctor,     \* how the constructor of the counter in use ended: "ok" or "panic"
  args,     \* the arguments the constructor was called with
  last,     \* the call that has returned: its arguments and its result
  mu,       \* the mutex m of each rolling counter: 0 when free, else its holder
  th,       \* the goroutines calling the counter: position and local variables
  serial,   \* the rolling counter had the calls run one at a time, in lock order
  truth,    \* the sum of the deltas counted for each key of the sketch
  wire,     \* the bytes GobEncode returned
  clone,    \* the fresh instance the bytes were decoded into
  before    \* the buckets of the rolling counter when the last Count began

vars ==
  <<sketch, rl, rc, ctor, args, last, mu, th, serial, truth, wire, clone,
    before>>

\* what the calls on a counter in use leave alone
aux == <<truth, wire, clone, before>>

\* what the goroutines' variables are while a single caller drives the counter
goroutines == <<mu, th, serial>>

Times == 0 .. MaxTime
Intervals == 0 .. MaxInterval
Deltas == 0 .. MaxDelta

\* the record of a call: the operation, its arguments, the clock reading it
\* made, the walk's result (tc, td) and the returned value
Call(op, key, delta, interval, now, tc, td, ret) ==
  [op |-> op, key |-> key, delta |-> delta, interval |-> interval,
   now |-> now, tc |-> tc, td |-> td, ret |-> ret]

NoCall == Call("none", <<>>, 0, 0, 0, RatInt(0), 0, RatInt(0))

NoRollup == [Levels |-> <<>>]

\* the sum of the deltas a sketch has counted: every Count adds its delta to
\* one cell of row 0
RECURSIVE rowSum(_, _)
rowSum(r, j) == IF j >= r.Width THEN 0 ELSE r.Matrix[j] + rowSum(r, j + 1)

mass(b) == IF b.CountSketch = Nil THEN 0 ELSE rowSum(b.CountSketch, 0)

\* the bound on the counts: the bucket that takes the delta stays within MaxCount
Bounded(rl2) ==
  Len(rl2.buckets) = 0 \/ mass(rl2.buckets[Len(rl2.buckets)]) <= MaxCount

\* the newest bucket of a rolling counter that has one
newest(c) == c.buckets[Len(c.buckets)]

\* no goroutine other than the single caller
SingleCaller == mu = <<>> /\ th = <<>> /\ serial = Nil

\* nothing encoded, nothing decoded, no Count begun
NoGob == wire = Nil /\ clone = Nil /\ before = <<>>

\* the caller takes the result of the call that returned
Return ==
  /\ last.op # "none"
  /\ last' = NoCall
  /\ wire' = Nil
  /\ clone' = Nil
  /\ before' = <<>>
  /\ UNCHANGED <<sketch, rl, rc, ctor, args, truth>>
  /\ UNCHANGED goroutines

(***************************************************************************)
(* A rolling counter driven by one caller: any sequence of Count and Query *)
(* calls, the injected clock returning any instant at each call.           *)
(***************************************************************************)
InitRolling ==
  /\ sketch = NewSketch(Epsilon, Delta)
  /\ \E interval \in 1 .. MaxCounterInterval, num \in 0 .. MaxNum :
       /\ rl = RollingCounter(Epsilon, Delta, interval, num)
       /\ args = [kind |-> "rolling", interval |-> interval, num |-> num,
                  durations |-> <<>>]
  /\ rc = NoRollup
  /\ ctor = "ok"
  /\ last = NoCall
  /\ SingleCaller
  /\ truth = Nil
  /\ NoGob

\* rollingCounter.Count
RollingCount ==
  /\ args.kind = "rolling"
  /\ ctor = "ok"
  /\ last.op = "none"
  /\ \E key \in RateKeys, delta \in Deltas, interval \in Intervals, now \in Times :
       \E c \in {count(rl, key, delta, now, interval)} :
           /\ Bounded(c.rl)
           /\ rl' = c.rl
           /\ last' = Call("Count", key, delta, interval, now, c.tc, c.td,
                           rate(c.tc, c.td))
  /\ UNCHANGED <<sketch, rc, ctor, args>>
  /\ before' = rl.buckets
  /\ UNCHANGED <<truth, wire, clone>>
  /\ UNCHANGED goroutines

\* rollingCounter.Query written as Count(key, 0, interval): it rotates
RollingQueryRotating ==
  /\ args.kind = "rolling"
  /\ ctor = "ok"
  /\ last.op = "none"
  /\ \E key \in RateKeys, interval \in Intervals, now \in Times :
       \E c \in {count(rl, key, 0, now, interval)} :
           /\ rl' = c.rl
           /\ last' = Call("Query", key, 0, interval, now, c.tc, c.td,
                           rate(c.tc, c.td))
  /\ UNCHANGED <<sketch, rc, ctor, args>>
  /\ UNCHANGED aux
  /\ UNCHANGED goroutines

\* rollingCounter.Query
RollingQuery ==
  /\ args.kind = "rolling"
  /\ ctor = "ok"
  /\ last.op = "none"
  /\ \E key \in RateKeys, interval \in Intervals, now \in Times :
       \E q \in {IF Len(rl.buckets) = 0
                 THEN [tc |-> RatInt(0), td |-> 0]
                 ELSE query(rl, key, now, interval, 0)} :
           last' = Call("Query", key, 0, interval, now, q.tc, q.td,
                        rate(q.tc, q.td))
  /\ UNCHANGED <<sketch, rl, rc, ctor, args>>
  /\ UNCHANGED aux
  /\ UNCHANGED goroutines

NextRolling == RollingCount \/ RollingQuery \/ Return

SpecRolling == InitRolling /\ [][NextRolling]_vars

(***************************************************************************)
(* A rollup counter driven by one caller.                                  *)
(***************************************************************************)
\* the duration lists RollupCounter is called with, in ticks
RollupDurations ==
  {<<>>, <<2>>, <<2, 4>>, <<1, 2, 4>>, <<2, 3>>, <<2, 2>>, <<4, 2>>,
   <<2, 0>>, <<0, 2>>}

InitRollup ==
  /\ sketch = NewSketch(Epsilon, Delta)
  /\ rl = RollingCounter(Epsilon, Delta, 0, 0)
  /\ \E durations \in RollupDurations :
       /\ args = [kind |-> "rollup", interval |-> 0, num |-> 0,
                  durations |-> durations]
       /\ IF rollupPanics(durations)
          THEN rc = NoRollup /\ ctor = "panic"
          ELSE rc = RollupCounter(Epsilon, Delta, durations) /\ ctor = "ok"
  /\ last = NoCall
  /\ SingleCaller
  /\ truth = Nil
  /\ NoGob

\* rollupCounter.Count
RollupCount ==
  /\ args.kind = "rollup"
  /\ ctor = "ok"
  /\ last.op = "none"
  /\ \E key \in RateKeys, delta \in Deltas, interval \in Intervals, now \in Times :
       \E c \in {rollupCount(rc, key, delta, now, interval)} :
           /\ \A i \in 1 .. Len(c.rc.Levels) : Bounded(c.rc.Levels[i])
           /\ rc' = c.rc
           /\ last' = Call("Count", key, delta, interval, now, c.tc, c.td,
                           rate(c.tc, c.td))
  /\ UNCHANGED <<sketch, rl, ctor, args>>
  /\ UNCHANGED aux
  /\ UNCHANGED goroutines

\* rollupCounter.Query
RollupQuery ==
  /\ args.kind = "rollup"
  /\ ctor = "ok"
  /\ last.op = "none"
  /\ \E key \in RateKeys, interval \in Intervals, now \in Times :
       \E q \in {rollupQuery(rc, key, now, interval)} :
           last' = Call("Query", key, 0, interval, now, q.tc, q.td,
                        rate(q.tc, q.td))
  /\ UNCHANGED <<sketch, rl, rc, ctor, args>>
  /\ UNCHANGED aux
  /\ UNCHANGED goroutines

NextRollup == RollupCount \/ RollupQuery \/ Return

SpecRollup == InitRollup /\ [][NextRollup]_vars

(***************************************************************************)
(* A count-min sketch driven by one caller.                                *)
(***************************************************************************)
\* the deltas passed to fnvSketch.Count: an int, so -1 too (uint64(-1) wraps)
SketchDeltas == -1 .. MaxDelta

InitSketch ==
  /\ sketch = NewSketch(Epsilon, Delta)
  /\ rl = RollingCounter(Epsilon, Delta, 0, 0)
  /\ rc = NoRollup
  /\ ctor = "ok"
  /\ args = [kind |-> "sketch", interval |-> 0, num |-> 0, durations |-> <<>>]
  /\ last = NoCall
  /\ SingleCaller
  /\ truth = [valid |-> TRUE, n |-> [key \in Keys |-> 0]]
  /\ NoGob

\* whether Count(key, delta) on sketch r takes a cell past the largest uint64
overflows(r, key, delta) ==
  \E i \in 0 .. (r.Depth - 1) :
    r.Matrix[i * r.Width + Columns[key][i]] + delta > MaxUint

\* the true totals after Count(key, delta): the delta is added to the total of
\* key; the totals stop being kept at the first negative delta or overflow
tallied(t, r, key, delta) ==
  IF ~t.valid \/ delta < 0 \/ overflows(r, key, delta)
  THEN [valid |-> FALSE, n |-> [k \in Keys |-> 0]]
  ELSE [t EXCEPT !.n[key] = @ + delta]

\* fnvSketch.Count
SketchCount ==
  /\ args.kind = "sketch"
  /\ last.op = "none"
  /\ \E key \in Keys, delta \in SketchDeltas :
       \E c \in {sketchCount(sketch, key, delta)} :
           /\ sketch' = c.sketch
           /\ truth' = tallied(truth, sketch, key, delta)
           /\ last' = Call("Count", key, delta, 0, 0, RatInt(0), 0, RatInt(c.ret))
  /\ UNCHANGED <<rl, rc, ctor, args, wire, clone, before>>
  /\ UNCHANGED goroutines

\* fnvSketch.Query
SketchQuery ==
  /\ args.kind = "sketch"
  /\ last.op = "none"
  /\ \E key \in Keys :
       last' = Call("Query", key, 0, 0, 0, RatInt(0), 0,
                    RatInt(sketchQuery(sketch, key)))
  /\ UNCHANGED <<sketch, rl, rc, ctor, args>>
  /\ UNCHANGED aux
  /\ UNCHANGED goroutines

NextSketch == SketchCount \/ SketchQuery \/ Return

SpecSketch == InitSketch /\ [][NextSketch]_vars

(***************************************************************************)
(* Goroutines calling one counter.  A step is one statement of the called  *)
(* method; the steps of different goroutines interleave.                   *)
(***************************************************************************)
Threads == 1 .. NumThreads

\* the durations of a call's arguments, the instants of the clock
CallIntervals == {0, MaxInterval}
CallDeltas == 1 .. MaxDelta
CallTimes == {0, Second, MaxTime}

\* a goroutine between two calls; calls counts the calls it has made
Idle ==
  [pc |-> "idle", op |-> "none", key |-> <<>>, delta |-> 0, interval |-> 0,
   now |-> 0, lvl |-> 1, i |-> 0, v |-> 0, min |-> 0, tc |-> RatInt(0),
   td |-> 0, ret |-> RatInt(0), expect |-> RatInt(0), calls |-> 0]

\* the rolling counter goroutine t is working on: the counter itself, or the
\* level of the rollup its loop is at
cur(t) == IF args.kind = "rolling" THEN rl ELSE rc.Levels[th[t].lvl]

\* the assignment of c to that counter
SetCur(t, c) ==
  IF args.kind = "rolling"
  THEN rl' = c /\ rc' = rc
  ELSE rc' = [rc EXCEPT !.Levels[th[t].lvl] = c] /\ rl' = rl

\* k := i*r.Width + j of fnvSketch.Count for row i
cellIndex(key, i) == i * Width + Columns[key][i]

\* what gob sends of a struct: the fields that are not zero, each with its
\* number; a field that is missing leaves the decoder's zero value
RECURSIVE sent(_, _)
sent(fields, zero) ==
  IF fields = <<>> THEN <<>>
  ELSE (IF Head(fields)[2] = zero[Head(fields)[1]] THEN <<>> ELSE <<Head(fields)>>)
         \o sent(Tail(fields), zero)

\* the value of field f read from a struct's fields, zero[f] when it was not sent
RECURSIVE received(_, _, _)
received(fields, f, zero) ==
  IF fields = <<>> THEN zero[f]
  ELSE IF Head(fields)[1] = f THEN Head(fields)[2]
  ELSE received(Tail(fields), f, zero)

\* a slice goes element by element, whatever the elements are
cellsSent(matrix, n) == [i \in 1 .. n |-> matrix[i - 1]]
cellsReceived(cells) == [k \in 0 .. (Len(cells) - 1) |-> cells[k + 1]]

\* the zero values of the fields of fnvSketch and of sketchWithTime
zeroSketch == <<RatInt(0), RatInt(0), 0, 0, <<>>>>
zeroBucket == <<<<>>, 0>>

\* gob of *fnvSketch: Epsilon, Delta, Width, Depth, Matrix
sketchEncode(r) ==
  sent(<<<<1, r.Epsilon>>, <<2, r.Delta>>, <<3, r.Width>>, <<4, r.Depth>>,
         <<5, cellsSent(r.Matrix, r.Width * r.Depth)>>>>, zeroSketch)

sketchDecode(fields) ==
  [Epsilon |-> received(fields, 1, zeroSketch),
   Delta   |-> received(fields, 2, zeroSketch),
   Width   |-> received(fields, 3, zeroSketch),
   Depth   |-> received(fields, 4, zeroSketch),
   Matrix  |-> cellsReceived(received(fields, 5, zeroSketch))]

\* gob of sketchWithTime: CountSketch (nothing for a nil pointer, else the
\* struct it points to), Time
bucketEncode(b) ==
  sent(<<<<1, IF b.CountSketch = Nil THEN <<>>
              ELSE <<sketchEncode(b.CountSketch)>>>>,
         <<2, b.Time>>>>, zeroBucket)

bucketDecode(fields) ==
  [CountSketch |-> IF received(fields, 1, zeroBucket) = <<>> THEN Nil
                   ELSE sketchDecode(received(fields, 1, zeroBucket)[1]),
   Time        |-> received(fields, 2, zeroBucket)]

\* GobDecode reading Delta into Epsilon and Epsilon into Delta
gobDecodeSwapped(data) ==
  [Epsilon |-> data[2], Delta |-> data[1], Interval |-> data[3],
   NumIntervals |-> data[4],
   buckets |-> [i \in 1 .. Len(data[5]) |-> bucketDecode(data[5][i])]]

\* the five values GobEncode writes, in order, each sent whole
gobEncode(c) ==
  <<c.Epsilon, c.Delta, c.Interval, c.NumIntervals,
    [i \in 1 .. Len(c.buckets) |-> bucketEncode(c.buckets[i])]>>

\* GobDecode: the five values read back into the fields
gobDecode(data) ==
  [Epsilon |-> data[1], Delta |-> data[2], Interval |-> data[3],
   NumIntervals |-> data[4],
   buckets |-> [i \in 1 .. Len(data[5]) |-> bucketDecode(data[5][i])]]

\* gob of *rollupCounter: the struct's one exported field, Levels, each level
\* through its GobEncode; nothing is sent for an empty Levels
rollupEncode(r) ==
  sent(<<<<1, [i \in 1 .. Len(r.Levels) |-> gobEncode(r.Levels[i])]>>>>, <<<<>>>>)

rollupDecode(fields) ==
  [Levels |-> [i \in 1 .. Len(received(fields, 1, <<<<>>>>)) |->
                 gobDecode(received(fields, 1, <<<<>>>>)[i])]]

\* the encodings handed to GobDecode: a counter that has counted nothing, and
\* one that counted "a" once at instant 0
Encodings ==
  { gobEncode(RollingCounter(Epsilon, Delta, 1, 1)),
    gobEncode(update(RollingCounter(Epsilon, Delta, 2, 2), <<97>>, 1, 0).rl) }

\* a goroutine calls Count, Query, GobEncode or GobDecode on the rolling
\* counter
Begin(t) ==
  /\ args.kind = "rolling"
  /\ th[t].pc = "idle"
  /\ th[t].calls < MaxCalls
  /\ \/ \E key \in RateKeys, delta \in CallDeltas, interval \in CallIntervals :
          th' = [th EXCEPT ![t] = [@ EXCEPT !.pc = "lock", !.op = "Count",
                   !.key = key, !.delta = delta, !.interval = interval]]
     \/ \E key \in RateKeys, interval \in CallIntervals :
          th' = [th EXCEPT ![t] = [@ EXCEPT !.pc = "lock", !.op = "Query",
                   !.key = key, !.interval = interval]]
     \/ th' = [th EXCEPT ![t] = [@ EXCEPT !.pc = "lock", !.op = "GobEncode"]]
     \/ th' = [th EXCEPT ![t] = [@ EXCEPT !.pc = "lock", !.op = "GobDecode"]]
  /\ UNCHANGED <<sketch, rl, rc, ctor, args, last, mu, serial>>
  /\ UNCHANGED aux

\* where a method goes once it holds the mutex
locked(op) ==
  CASE op = "GobEncode" -> "encode"
    [] op = "GobDecode" -> "decode"
    [] OTHER -> "clock"

\* rl.m.Lock() taking the mutex whether or not it is free
LockNoWait(t) ==
  /\ th[t].pc = "lock"
  /\ mu' = [mu EXCEPT ![1] = t]
  /\ th' = [th EXCEPT ![t].pc = locked(th[t].op)]
  /\ UNCHANGED <<sketch, rl, rc, ctor, args, last, serial>>
  /\ UNCHANGED aux

\* rl.m.Lock(): the first statement of the four methods
Lock(t) ==
  /\ th[t].pc = "lock"
  /\ mu[1] = 0
  /\ mu' = [mu EXCEPT ![1] = t]
  /\ th' = [th EXCEPT ![t].pc = locked(th[t].op)]
  /\ UNCHANGED <<sketch, rl, rc, ctor, args, last, serial>>
  /\ UNCHANGED aux

\* rl.now() in Count and in Query (which returns 0 before it when there is no
\* bucket).  serial takes the whole call here.
ReadClock(t) ==
  /\ th[t].pc = "clock"
  /\ IF th[t].op = "Count"
     THEN \E now \in CallTimes :
            \E c \in {count(serial, th[t].key, th[t].delta, now, th[t].interval)} :
              /\ serial' = c.rl
              /\ th' = [th EXCEPT ![t] = [@ EXCEPT !.pc = "rotate", !.now = now,
                          !.expect = rate(c.tc, c.td)]]
     ELSE /\ serial' = serial
          /\ IF Len(rl.buckets) = 0
             THEN th' = [th EXCEPT ![t] = [@ EXCEPT !.pc = "unlock",
                           !.ret = RatInt(0),
                           !.expect = rollingQuery(serial, th[t].key, 0,
                                                   th[t].interval)]]
             ELSE \E now \in CallTimes :
                    th' = [th EXCEPT ![t] = [@ EXCEPT !.pc = "walk", !.now = now,
                             !.expect = rollingQuery(serial, th[t].key, now,
                                                     th[t].interval)]]
  /\ UNCHANGED <<sketch, rl, rc, ctor, args, last, mu>>
  /\ UNCHANGED aux

\* rollingCounter.count: the new bucket, appended or shifted in, when the
\* newest one is an Interval old
Rotate(t) ==
  /\ th[t].pc = "rotate"
  /\ SetCur(t, [cur(t) EXCEPT !.buckets = rotate(cur(t), th[t].now)])
  /\ th' = [th EXCEPT ![t] = [@ EXCEPT !.pc = "load", !.i = 0, !.min = MaxUint]]
  /\ UNCHANGED <<sketch, ctor, args, last, mu, serial>>
  /\ UNCHANGED aux

\* fnvSketch.Count on the newest bucket, row i: the read of r.Matrix[k] += delta
Load(t) ==
  /\ th[t].pc = "load"
  /\ IF Len(cur(t).buckets) = 0
     THEN th' = [th EXCEPT ![t].pc = "panic"]
     ELSE IF newest(cur(t)).CountSketch = Nil
     THEN th' = [th EXCEPT ![t] = [@ EXCEPT !.pc = "walk", !.min = 0]]
     ELSE th' = [th EXCEPT ![t] = [@ EXCEPT !.pc = "store",
                   !.v = newest(cur(t)).CountSketch.Matrix[cellIndex(th[t].key, th[t].i)]]]
  /\ UNCHANGED <<sketch, rl, rc, ctor, args, last, mu, serial>>
  /\ UNCHANGED aux

\* the write of r.Matrix[k] += delta
Store(t) ==
  /\ th[t].pc = "store"
  /\ IF Len(cur(t).buckets) = 0
     THEN th' = [th EXCEPT ![t].pc = "panic"] /\ UNCHANGED <<rl, rc>>
     ELSE /\ SetCur(t, [cur(t) EXCEPT
                 !.buckets[Len(cur(t).buckets)].CountSketch.Matrix[cellIndex(th[t].key, th[t].i)] =
                    addCell(th[t].v, th[t].delta)])
          /\ th' = [th EXCEPT ![t].pc = "min"]
  /\ UNCHANGED <<sketch, ctor, args, last, mu, serial>>
  /\ UNCHANGED aux

\* if v := r.Matrix[k]; v < min { min = v }, and the loop's i++
Min(t) ==
  /\ th[t].pc = "min"
  /\ IF Len(cur(t).buckets) = 0
     THEN th' = [th EXCEPT ![t].pc = "panic"]
     ELSE \E v \in {newest(cur(t)).CountSketch.Matrix[cellIndex(th[t].key, th[t].i)]} :
            th' = [th EXCEPT ![t] = [@ EXCEPT
                     !.min = IF v < th[t].min THEN v ELSE th[t].min,
                     !.i = th[t].i + 1,
                     !.pc = IF th[t].i + 1 < Depth THEN "load" ELSE "walk"]]
  /\ UNCHANGED <<sketch, rl, rc, ctor, args, last, mu, serial>>
  /\ UNCHANGED aux

\* rollingCounter.query, called by count with the updated count of the newest
\* bucket and by Query with 0; then the caller's use of the result: the rate
\* in rollingCounter.Count and Query, the loop's sums in rollupCounter.Count
\* (which keeps now) and Query (which moves now back)
Walk(t) ==
  /\ th[t].pc = "walk"
  /\ \E q \in {query(cur(t), th[t].key, th[t].now, th[t].interval,
                     IF th[t].op = "Count" THEN th[t].min ELSE 0)} :
       IF args.kind = "rolling"
       THEN th' = [th EXCEPT ![t] = [@ EXCEPT !.pc = "unlock",
                     !.ret = rate(q.tc, q.td)]]
       ELSE th' = [th EXCEPT ![t] = [@ EXCEPT !.pc = "level",
                     !.tc = RatAdd(th[t].tc, q.tc),
                     !.td = th[t].td + q.td,
                     !.now = IF th[t].op = "Query" THEN th[t].now - q.td
                             ELSE th[t].now,
                     !.interval = th[t].interval - q.td,
                     !.lvl = th[t].lvl + 1]]
  /\ UNCHANGED <<sketch, rl, rc, ctor, args, last, mu, serial>>
  /\ UNCHANGED aux

\* GobEncode under the mutex
Encode(t) ==
  /\ th[t].pc = "encode"
  /\ th' = [th EXCEPT ![t] = [@ EXCEPT !.pc = "unlock", !.ret = gobEncode(rl),
              !.expect = gobEncode(serial)]]
  /\ UNCHANGED <<sketch, rl, rc, ctor, args, last, mu, serial>>
  /\ UNCHANGED aux

\* GobDecode under the mutex
Decode(t) ==
  /\ th[t].pc = "decode"
  /\ \E data \in Encodings :
       /\ rl' = gobDecode(data)
       /\ serial' = gobDecode(data)
  /\ th' = [th EXCEPT ![t].pc = "unlock"]
  /\ UNCHANGED <<sketch, rc, ctor, args, last, mu>>
  /\ UNCHANGED aux

\* the deferred rl.m.Unlock(), and the return
Unlock(t) ==
  /\ th[t].pc = "unlock"
  /\ mu' = [mu EXCEPT ![1] = 0]
  /\ th' = [th EXCEPT ![t] = [Idle EXCEPT !.calls = th[t].calls + 1]]
  /\ UNCHANGED <<sketch, rl, rc, ctor, args, last, serial>>
  /\ UNCHANGED aux

InitLocked ==
  /\ sketch = NewSketch(Epsilon, Delta)
  /\ \E interval \in {MaxCounterInterval}, num \in {1, MaxNum} :
       /\ rl = RollingCounter(Epsilon, Delta, interval, num)
       /\ args = [kind |-> "rolling", interval |-> interval, num |-> num,
                  durations |-> <<>>]
  /\ rc = NoRollup
  /\ ctor = "ok"
  /\ last = NoCall
  /\ mu = <<0>>
  /\ th = [t \in Threads |-> Idle]
  /\ serial = rl
  /\ truth = Nil
  /\ NoGob

NextLocked ==
  \E t \in Threads :
    \/ Begin(t) \/ Lock(t) \/ ReadClock(t) \/ Rotate(t) \/ Load(t)
    \/ Store(t) \/ Min(t) \/ Walk(t) \/ Encode(t) \/ Decode(t) \/ Unlock(t)

SpecLocked == InitLocked /\ [][NextLocked]_vars

(***************************************************************************)
(* Goroutines calling one rollup counter.  rollupCounter.Count and Query   *)
(* call the levels' count and query, which take no mutex.                  *)
(***************************************************************************)
RaceDurations == {<<2, 4>>, <<1, 2, 4>>}
RaceTimes == {0, MaxTime}
RaceIntervals == {MaxInterval}

\* a goroutine calls rollupCounter.Count or Query: now := rc.now()
RollupBegin(t) ==
  /\ args.kind = "rollup"
  /\ th[t].pc = "idle"
  /\ th[t].calls < MaxRaceCalls
  /\ \E now \in RaceTimes :
       \/ \E key \in RateKeys, delta \in CallDeltas, interval \in RaceIntervals :
            th' = [th EXCEPT ![t] = [@ EXCEPT !.pc = "level", !.op = "Count",
                     !.key = key, !.delta = delta, !.interval = interval,
                     !.now = now]]
       \/ \E key \in RateKeys, interval \in RaceIntervals :
            th' = [th EXCEPT ![t] = [@ EXCEPT !.pc = "level", !.op = "Query",
                     !.key = key, !.interval = interval, !.now = now]]
  /\ UNCHANGED <<sketch, rl, rc, ctor, args, last, mu, serial>>
  /\ UNCHANGED aux

\* the head of the loop over rc.Levels: Query breaks on a used-up interval
\* and calls c.query; Count clamps the interval and calls c.count; after the
\* loop, the rate
Level(t) ==
  /\ th[t].pc = "level"
  /\ IF \/ th[t].lvl > Len(rc.Levels)
        \/ th[t].op = "Query" /\ th[t].interval <= 0
     THEN th' = [th EXCEPT ![t] = [@ EXCEPT !.pc = "return",
                   !.ret = rate(th[t].tc, th[t].td)]]
     ELSE IF th[t].op = "Query"
     THEN th' = [th EXCEPT ![t].pc = "walk"]
     ELSE th' = [th EXCEPT ![t] = [@ EXCEPT !.pc = "rotate",
                   !.interval = IF th[t].interval < 0 THEN 0
                                ELSE th[t].interval]]
  /\ UNCHANGED <<sketch, rl, rc, ctor, args, last, mu, serial>>
  /\ UNCHANGED aux

\* the return of rollupCounter.Count and Query
RollupReturn(t) ==
  /\ th[t].pc = "return"
  /\ th' = [th EXCEPT ![t] = [Idle EXCEPT !.calls = th[t].calls + 1]]
  /\ UNCHANGED <<sketch, rl, rc, ctor, args, last, mu, serial>>
  /\ UNCHANGED aux

InitRace ==
  /\ sketch = NewSketch(Epsilon, Delta)
  /\ rl = RollingCounter(Epsilon, Delta, 0, 0)
  /\ \E durations \in RaceDurations :
       /\ args = [kind |-> "rollup", interval |-> 0, num |-> 0,
                  durations |-> durations]
       /\ rc = RollupCounter(Epsilon, Delta, durations)
       /\ mu = [i \in 1 .. Len(rc.Levels) |-> 0]
  /\ ctor = "ok"
  /\ last = NoCall
  /\ th = [t \in Threads |-> Idle]
  /\ serial = Nil
  /\ truth = Nil
  /\ NoGob

NextRace ==
  \E t \in Threads :
    \/ RollupBegin(t) \/ Level(t) \/ Rotate(t) \/ Load(t) \/ Store(t)
    \/ Min(t) \/ Walk(t) \/ RollupReturn(t)

SpecRace == InitRace /\ [][NextRace]_vars

(***************************************************************************)
(* A counter that is counted on, encoded, and decoded into a fresh         *)
(* instance that is given the same clock.                                  *)
(***************************************************************************)
\* encode(counter): GobEncode of a rolling counter, gob of a rollup counter
GobEncode ==
  /\ ctor = "ok"
  /\ last.op = "none"
  /\ wire' = IF args.kind = "rolling" THEN gobEncode(rl) ELSE rollupEncode(rc)
  /\ last' = Call("GobEncode", <<>>, 0, 0, 0, RatInt(0), 0, RatInt(0))
  /\ UNCHANGED <<sketch, rl, rc, ctor, args, truth, clone, before>>
  /\ UNCHANGED goroutines

\* decode(clone, encoding) on a fresh clone
GobDecode ==
  /\ last.op = "GobEncode"
  /\ clone' = IF args.kind = "rolling" THEN gobDecode(wire) ELSE rollupDecode(wire)
  /\ last' = Call("GobDecode", <<>>, 0, 0, 0, RatInt(0), 0, RatInt(0))
  /\ UNCHANGED <<sketch, rl, rc, ctor, args, truth, wire, before>>
  /\ UNCHANGED goroutines

InitGob == InitRolling \/ (InitRollup /\ ctor = "ok")

NextGob ==
  RollingCount \/ RollupCount \/ GobEncode \/ GobDecode \/ Return

SpecGob == InitGob /\ [][NextGob]_vars

(***************************************************************************)
(* Either counter driven by one caller.                                    *)
(***************************************************************************)
Init == InitRolling \/ InitRollup

Next == RollingCount \/ RollingQuery \/ RollupCount \/ RollupQuery \/ Return

Spec == Init /\ [][Next]_vars

(***************************************************************************)
(* Properties.                                                             *)
(***************************************************************************)
Called == last.op \in {"Count", "Query"}

\* the duration the levels' loops cover in rollupCounter.Query, before each
\* level's floor is applied
RECURSIVE rollupWalkedQuery(_, _, _, _, _)
rollupWalkedQuery(r, key, i, now, interval) ==
  IF i > Len(r.Levels) \/ interval <= 0 THEN 0
  ELSE LET q == query(r.Levels[i], key, now, interval, 0)
       IN  walked(r.Levels[i], key, now, interval, 0).td
             + rollupWalkedQuery(r, key, i + 1, now - q.td, interval - q.td)

\* the same for rollupCounter.Count, on the counter it has updated
RECURSIVE rollupWalkedCount(_, _, _, _, _)
rollupWalkedCount(r, key, i, now, interval) ==
  IF i > Len(r.Levels) THEN 0
  ELSE LET iv == IF interval < 0 THEN 0 ELSE interval
           q  == query(r.Levels[i], key, now, iv, 0)
       IN  walked(r.Levels[i], key, now, iv, 0).td
             + rollupWalkedCount(r, key, i + 1, now, iv - q.td)

\* the duration covered by the buckets the last call walked
Covered ==
  IF args.kind = "rolling"
  THEN IF Len(rl.buckets) = 0 THEN 0
       ELSE walked(rl, last.key, last.now, last.interval, 0).td
  ELSE IF last.op = "Query"
       THEN rollupWalkedQuery(rc, last.key, 1, last.now, last.interval)
       ELSE rollupWalkedCount(rc, last.key, 1, last.now, last.interval)

\* C1: on a rolling and on a rollup counter, a Count or Query whose interval
\* is under one second, or whose walked buckets cover under one second,
\* returns exactly 0.
C1_RateFloor ==
  Called /\ (last.interval < Second \/ Covered < Second) => last.ret = RatInt(0)

\* a Count over an interval of a second or more that walked a bucket holding
\* the key for less than a second, and returned 0
C1_Witness ==
  /\ last.op = "Count"
  /\ last.delta > 0
  /\ last.interval >= Second
  /\ Covered > 0
  /\ Covered < Second
  /\ last.ret = RatInt(0)

\* C2: a rolling counter built with numIntervals >= 1, and every level of a
\* rollup counter with NumIntervals >= 1, never holds more than NumIntervals
\* buckets.
C2_BucketCap ==
  /\ rl.NumIntervals >= 1 => Len(rl.buckets) <= rl.NumIntervals
  /\ \A i \in 1 .. Len(rc.Levels) :
       rc.Levels[i].NumIntervals >= 1 =>
         Len(rc.Levels[i].buckets) <= rc.Levels[i].NumIntervals

\* a Count has rotated a full finest level of a rollup, which dropped a bucket
\* the next level still holds
C2_Witness ==
  /\ last.op = "Count"
  /\ Len(rc.Levels) = 2
  /\ Len(rc.Levels[1].buckets) = rc.Levels[1].NumIntervals
  /\ rc.Levels[1].buckets[Len(rc.Levels[1].buckets)].Time = last.now
  /\ rc.Levels[2].buckets[1].Time < rc.Levels[1].buckets[1].Time

Rolling == args.kind = "rolling"
Rollup == args.kind = "rollup"

\* the positions of a goroutine inside a level's count or query
InLevel == {"rotate", "load", "store", "min", "walk"}

\* C3: on a rollup counter every access that Count and Query make to a level
\* happens while the goroutine holds that level's mutex, so no two goroutines
\* are inside the same level's count or query at once.
C3_LevelMutexHeld ==
  args.kind = "rollup" =>
    /\ \A t \in DOMAIN th :
         th[t].pc \in InLevel => mu[th[t].lvl] = t
    /\ \A t, u \in DOMAIN th :
         /\ th[t].pc \in InLevel
         /\ th[u].pc \in InLevel
         /\ th[t].lvl = th[u].lvl
         => t = u

\* the positions of a goroutine between rl.m.Lock() and rl.m.Unlock()
Critical ==
  {"clock", "rotate", "load", "store", "min", "walk", "encode", "decode",
   "unlock"}

\* C4: on a rolling counter a goroutine holds the mutex from before it reads
\* the clock until its walk has finished, no two goroutines are between Lock
\* and Unlock at once, and the calls take effect one at a time in lock order:
\* every call returns what it returns in that order and the counter ends as
\* that order leaves it, so no delta is lost.
C4_Serialized ==
  args.kind = "rolling" =>
    /\ \A t \in DOMAIN th : th[t].pc \in Critical => mu[1] = t
    /\ \A t, u \in DOMAIN th :
         th[t].pc \in Critical /\ th[u].pc \in Critical => t = u
    /\ \A t \in DOMAIN th :
         th[t].pc = "unlock" => th[t].ret = th[t].expect /\ rl = serial
    /\ (\A t \in DOMAIN th : th[t].pc \notin Critical) => rl = serial

\* a Count has finished on a bucket that held an earlier count, while the
\* other goroutine, which has made a call before, waits for the mutex
C4_Witness ==
  \E t, u \in DOMAIN th :
    /\ t # u
    /\ th[t].pc = "unlock"
    /\ th[t].op = "Count"
    /\ th[t].min > th[t].delta
    /\ th[t].ret # RatInt(0)
    /\ th[u].pc = "lock"
    /\ th[u].op = "Count"
    /\ th[u].calls >= 1

\* C5: on a rolling counter, the rate Count(key, delta, interval) returns is
\* the rate Query(key, interval) returns right after it at the same instant.
C5_CountIsQuery ==
  Rolling /\ last.op = "Count" =>
    last.ret = rollingQuery(rl, last.key, last.now, last.interval)

\* a Count that returned a rate from a newest bucket which already held the
\* key: the count handed to the walk is more than the delta
C5_Witness ==
  /\ Rolling
  /\ last.op = "Count"
  /\ last.delta > 0
  /\ last.now > newest(rl).Time
  /\ bucketQuery(newest(rl), last.key) > last.delta
  /\ last.ret # RatInt(0)

\* C6: on a rollup counter, the rate Count(key, delta, interval) returns is
\* the rate Query(key, interval) returns right after it at the same instant.
C6_RollupCountIsQuery ==
  Rollup /\ last.op = "Count" =>
    The({ last.ret = rate(q.tc, q.td) :
          q \in {rollupQuery(rc, last.key, last.now, last.interval)} })

\* the cells of a level's newest bucket before a Count at instant now: those
\* of the bucket that was the newest if it still is, zeros in a new bucket
cellsBefore(old, new) ==
  IF Len(old.buckets) > 0 /\ newest(old).Time = newest(new).Time
  THEN newest(old).CountSketch.Matrix
  ELSE [k \in 0 .. (Width * Depth - 1) |-> 0]

\* whether cell k is one of the cells of key
cellOf(key, k) == \E i \in 0 .. (Depth - 1) : k = i * Width + Columns[key][i]

\* C7: a rollup Count(key, delta, interval) adds delta exactly once to the
\* cells of key in the newest bucket of every level, whatever the interval.
C7_DeltaOncePerLevel ==
  [][Rollup /\ last'.op = "Count" =>
       \A i \in 1 .. Len(rc.Levels) :
         /\ Len(rc'.Levels[i].buckets) > 0
         /\ \A k \in 0 .. (Width * Depth - 1) :
              newest(rc'.Levels[i]).CountSketch.Matrix[k] =
                cellsBefore(rc.Levels[i], rc'.Levels[i])[k]
                  + (IF cellOf(last'.key, k) THEN last'.delta ELSE 0)]_vars

\* a rollup Count whose finest level used up the whole interval, and whose
\* next level holds the delta all the same
C7_Witness ==
  /\ Rollup
  /\ last.op = "Count"
  /\ Len(rc.Levels) = 2
  /\ last.delta > 0
  /\ last.interval >= Second
  /\ query(rc.Levels[1], last.key, last.now, last.interval, 0).td = last.interval
  /\ newest(rc.Levels[2]).Time = last.now
  /\ bucketQuery(newest(rc.Levels[2]), last.key) = last.delta

\* C8: a Query on a rolling or on a rollup counter changes neither the bucket
\* lists nor any sketch cell.
C8_QueryChangesNothing ==
  [][last'.op = "Query" => rl' = rl /\ rc' = rc /\ sketch' = sketch]_vars

\* a Query that walked buckets and returned a rate
C8_Witness ==
  /\ Rolling \/ Rollup
  /\ last.op = "Query"
  /\ last.ret # RatInt(0)

\* whether the constructor's arguments are those C9 calls a configuration error
BadConfig ==
  \/ Rolling /\ args.num <= 0
  \/ Rollup /\ Len(args.durations) < 2
  \/ Rollup /\ \E i \in 1 .. (Len(args.durations) - 1) :
                 args.durations[i] >= args.durations[i + 1]

\* C9 as stated: a bad configuration is reported as an error at construction.
C9_ConfigErrorReported == BadConfig => ctor = "error"

\* C9 as amended: no constructor reports an error.  RollingCounter with
\* numIntervals <= 0 returns a counter that keeps numIntervals as given and
\* never holds more than one bucket.  RollupCounter panics on an empty list
\* and on a zero duration other than the last; otherwise it returns a counter
\* with one level per adjacent pair of durations (none for one duration, and
\* then every Count and Query returns 0).
C9_NoConfigError ==
  /\ ctor # "error"
  /\ Rolling /\ args.num <= 0 =>
       ctor = "ok" /\ rl.NumIntervals = args.num /\ Len(rl.buckets) <= 1
  /\ Rollup /\ BadConfig =>
       IF \/ Len(args.durations) = 0
          \/ \E i \in 1 .. (Len(args.durations) - 1) : args.durations[i] = 0
       THEN ctor = "panic"
       ELSE /\ ctor = "ok"
            /\ Len(rc.Levels) = Len(args.durations) - 1
            /\ Len(rc.Levels) = 0 /\ Called => last.ret = RatInt(0)

\* a counter built with numIntervals = 0 answers a Query with a rate
C9_Witness ==
  /\ Rolling
  /\ args.num <= 0
  /\ last.op = "Query"
  /\ last.ret # RatInt(0)

\* C10: sketch.Count(k, d) returns what sketch.Query(k) returns right after
\* it: the minimum of the cells of k once d has been added to them.
C10_CountReturnsQuery ==
  args.kind = "sketch" /\ last.op = "Count" =>
    /\ last.ret = RatInt(sketchQuery(sketch, last.key))
    /\ \A i \in 0 .. (Depth - 1) :
         last.ret.num <= sketch.Matrix[i * Width + Columns[last.key][i]]
    /\ \E i \in 0 .. (Depth - 1) :
         last.ret.num = sketch.Matrix[i * Width + Columns[last.key][i]]

\* a Count on a key whose cells differ (another key shares one of them)
\* returned the smaller cell
C10_Witness ==
  /\ args.kind = "sketch"
  /\ last.op = "Count"
  /\ last.delta > 0
  /\ last.ret.num > last.delta
  /\ \E i \in 0 .. (Depth - 1) :
       last.ret.num < sketch.Matrix[i * Width + Columns[last.key][i]]


\* C11: after any sequence of Counts with non-negative deltas and no overflow,
\* Query(k) is at least the true total of the deltas counted for k, for every
\* key, whatever the collisions.
C11_NeverUnder ==
  args.kind = "sketch" /\ truth.valid =>
    \A key \in Keys : sketchQuery(sketch, key) >= truth.n[key]

\* a key that collides with other keys in every row is reported above its
\* true total, which is positive
C11_Witness ==
  /\ args.kind = "sketch"
  /\ truth.valid
  /\ \E key \in Keys :
       /\ truth.n[key] > 0
       /\ sketchQuery(sketch, key) > truth.n[key]


\* the keys counted so far, and the total of their deltas
population == {key \in Keys : truth.n[key] > 0}

RECURSIVE total(_)
total(ks) ==
  IF ks = {} THEN 0
  ELSE LET key == CHOOSE k \in ks : TRUE
       IN  truth.n[key] + total(ks \ {key})

\* Query(k) <= true count of k <= Query(k) + epsilon * N
within(key) ==
  /\ sketchQuery(sketch, key) <= truth.n[key]
  /\ (truth.n[key] - sketchQuery(sketch, key)) * sketch.Epsilon.den
       <= sketch.Epsilon.num * total(Keys)

\* C12 as stated: over the keys counted in one sketch, Query(k) <= true count
\* of k <= Query(k) + epsilon * N holds for at least a delta fraction of them.
C12_WithinForDeltaFraction ==
  args.kind = "sketch" /\ truth.valid =>
    Cardinality({key \in population : within(key)}) * sketch.Delta.den
      >= sketch.Delta.num * Cardinality(population)

\* whether another counted key shares the cell of key in row i
shared(key, i) ==
  \E other \in population \ {key} : Columns[other][i] = Columns[key][i]

\* C12 as amended: for every key, true count of k <= Query(k) <= N, and
\* Query(k) is the true count exactly when some row holds no other counted
\* key in the cell of k; the share of such keys has no lower bound.
C12_ExactUnlessShared ==
  args.kind = "sketch" /\ truth.valid =>
    \A key \in Keys :
      /\ truth.n[key] <= sketchQuery(sketch, key)
      /\ sketchQuery(sketch, key) <= total(Keys)
      /\ sketchQuery(sketch, key) = truth.n[key]
           <=> \E i \in 0 .. (Depth - 1) : ~shared(key, i)

\* three keys counted: one shares a cell in every row and is reported above
\* its total, another has a row to itself and is reported exactly
C12_Witness ==
  /\ args.kind = "sketch"
  /\ truth.valid
  /\ population = Keys
  /\ \E key \in Keys : sketchQuery(sketch, key) > truth.n[key]
  /\ \E key \in Keys :
       /\ sketchQuery(sketch, key) = truth.n[key]
       /\ \E i \in 0 .. (Depth - 1) : shared(key, i)


\* the rate rollupCounter.Query returns
rollupRate(r, key, now, interval) ==
  The({ rate(q.tc, q.td) : q \in {rollupQuery(r, key, now, interval)} })

\* C13: a rolling or rollup counter encoded and decoded into a fresh instance
\* gives a counter with the same parameters and the same buckets (start times
\* and cells), whose Query returns what the original's returns for every key
\* and interval at the same now.
C13_RoundTrip ==
  last.op = "GobDecode" =>
    IF args.kind = "rolling"
    THEN /\ clone = rl
         /\ \A key \in RateKeys, interval \in Intervals, now \in Times :
              rollingQuery(clone, key, now, interval)
                = rollingQuery(rl, key, now, interval)
    ELSE /\ clone = rc
         /\ \A key \in RateKeys, interval \in Intervals, now \in Times :
              rollupRate(clone, key, now, interval)
                = rollupRate(rc, key, now, interval)

\* a rollup counter with two levels that hold counts was decoded, and the
\* clone answers a Query with a rate
C13_Witness ==
  /\ last.op = "GobDecode"
  /\ args.kind = "rollup"
  /\ Len(clone.Levels) = 2
  /\ \A i \in 1 .. 2 : Len(clone.Levels[i].buckets) > 0
  /\ \E key \in RateKeys, now \in Times :
       rollupRate(clone, key, now, MaxInterval) # RatInt(0)


\* the cells of a bucket once delta has been counted for key on cells m
cellsAfter(m, key, delta) ==
  [k \in 0 .. (Width * Depth - 1) |->
     IF cellOf(key, k) THEN addCell(m[k], delta) ELSE m[k]]

ZeroCells == [k \in 0 .. (Width * Depth - 1) |-> 0]

\* whether a Count at instant now on counter c opens a bucket
opens(c, now) ==
  Len(c.buckets) = 0 \/ now - newest(c).Time >= c.Interval

\* C14: a Count at instant now opens a bucket that starts at now exactly when
\* there is no bucket or now - (newest start) >= interval; otherwise (also
\* when the clock moved backward) the list keeps its length and start times
\* and the delta goes to the newest bucket there was.
C14_OpensAtInterval ==
  [][Rolling /\ last'.op = "Count" =>
       IF opens(rl, last'.now)
       THEN /\ newest(rl').Time = last'.now
            /\ newest(rl').CountSketch.Matrix
                 = cellsAfter(ZeroCells, last'.key, last'.delta)
       ELSE /\ Len(rl'.buckets) = Len(rl.buckets)
            /\ \A i \in 1 .. Len(rl.buckets) :
                 rl'.buckets[i].Time = rl.buckets[i].Time
            /\ \A i \in 1 .. (Len(rl.buckets) - 1) :
                 rl'.buckets[i] = rl.buckets[i]
            /\ newest(rl').CountSketch.Matrix
                 = cellsAfter(newest(rl).CountSketch.Matrix, last'.key,
                              last'.delta)]_vars

\* a Count whose clock reading is before the newest bucket's start added its
\* delta to that bucket, which held the key already
C14_Witness ==
  /\ Rolling
  /\ last.op = "Count"
  /\ last.delta > 0
  /\ Len(rl.buckets) = 2
  /\ last.now < newest(rl).Time
  /\ bucketQuery(newest(rl), last.key) > last.delta


\* whether the last call is a Count that rotated a rolling counter holding
\* NumIntervals buckets
rotatedFull ==
  /\ Rolling
  /\ last.op = "Count"
  /\ Len(before) > 0
  /\ Len(before) = rl.NumIntervals
  /\ last.now - before[Len(before)].Time >= rl.Interval

\* C15: a Count that rotates a counter holding numIntervals buckets drops
\* exactly the oldest: the list is the old one without its first bucket,
\* followed by the new bucket; the buckets kept are as they were.
C15_DropsOldest ==
  rotatedFull =>
    /\ Len(rl.buckets) = Len(before)
    /\ \A i \in 1 .. (Len(before) - 1) : rl.buckets[i] = before[i + 1]
    /\ newest(rl).Time = last.now
    /\ \A i \in 1 .. (Len(before) - 1) : rl.buckets[i].Time < last.now

\* a full counter of two buckets rotated: the bucket kept holds counts and
\* the one dropped held others
C15_Witness ==
  /\ rotatedFull
  /\ Len(before) = 2
  /\ mass(before[2]) > 0
  /\ mass(before[1]) > 0
  /\ before[1].CountSketch # before[2].CountSketch
  /\ last.delta > 0


\* C16: on a rolling counter with interval > 0, whatever way the clock moves
\* between Counts, the bucket start times increase strictly from oldest to
\* newest and adjacent ones are at least an interval apart.
C16_StartsApart ==
  Rolling /\ rl.Interval > 0 =>
    \A i \in 1 .. (Len(rl.buckets) - 1) :
      /\ rl.buckets[i].Time < rl.buckets[i + 1].Time
      /\ rl.buckets[i + 1].Time - rl.buckets[i].Time >= rl.Interval

\* a Count read a clock that is before the start of every bucket of a
\* counter holding two
C16_Witness ==
  /\ Rolling
  /\ rl.Interval > 0
  /\ last.op = "Count"
  /\ Len(before) = 2
  /\ Len(rl.buckets) = 2
  /\ last.now < rl.buckets[1].Time


\* the lifecycle state of a rolling counter holding n buckets
phase(n) ==
  IF n = 0 THEN "empty"
  ELSE IF n < rl.NumIntervals THEN "filling"
  ELSE IF n = rl.NumIntervals THEN "full"
  ELSE "over"

\* the number of buckets never decreases, grows by at most one per Count, and
\* a Count leaves at least one
grows ==
  /\ Len(rl.buckets) >= Len(before)
  /\ Len(rl.buckets) <= Len(before) + 1
  /\ Len(rl.buckets) >= 1

\* C17 as stated: the only changes of state are empty -> filling on the first
\* Count, filling -> full and full -> full on a rotation; the number of
\* buckets never decreases, grows by at most one per Count, and the counter
\* never goes back to empty or from full to filling.  Stated for the counters
\* built with numIntervals >= 1.
C17_Lifecycle ==
  Rolling /\ last.op = "Count" /\ rl.NumIntervals >= 1 =>
    /\ grows
    /\ \/ phase(Len(before)) = "empty" /\ phase(Len(rl.buckets)) = "filling"
       \/ phase(Len(before)) = "filling"
            /\ phase(Len(rl.buckets)) \in {"filling", "full"}
       \/ phase(Len(before)) = "full" /\ phase(Len(rl.buckets)) = "full"

\* C17 as amended: with numIntervals >= 2 the changes are those stated; with
\* numIntervals = 1 the first Count takes the counter from empty to full; with
\* numIntervals <= 0 the first Count leaves one bucket, more than
\* numIntervals, and the counter stays there.  In every case the number of
\* buckets changes only when a bucket is opened, never decreases, grows by at
\* most one per Count and never returns to 0.
C17_LifecycleFromOne ==
  Rolling /\ last.op = "Count" =>
    /\ grows
    /\ Len(rl.buckets) # Len(before) => opens([rl EXCEPT !.buckets = before], last.now)
    /\ \/ phase(Len(before)) = "empty"
            /\ phase(Len(rl.buckets)) =
                 (IF rl.NumIntervals >= 2 THEN "filling"
                  ELSE IF rl.NumIntervals = 1 THEN "full" ELSE "over")
       \/ phase(Len(before)) = "filling"
            /\ phase(Len(rl.buckets)) \in {"filling", "full"}
       \/ phase(Len(before)) = "full" /\ phase(Len(rl.buckets)) = "full"
       \/ phase(Len(before)) = "over" /\ phase(Len(rl.buckets)) = "over"
            /\ rl.NumIntervals <= 0 /\ Len(rl.buckets) = 1

\* a counter built for two buckets went from filling to full: the Count
\* opened the second bucket
C17_Witness ==
  /\ Rolling
  /\ last.op = "Count"
  /\ rl.NumIntervals = 2
  /\ phase(Len(before)) = "filling"
  /\ phase(Len(rl.buckets)) = "full"
  /\ newest(rl).Time = last.now

\* ---- C18: the partly covered bucket of the rate walk ----

\* the instant the walk has come back to when it reaches bucket i of a counter
\* whose buckets are in time order: the start of the bucket after it, when that
\* bucket is before the walk's instant, else the walk's instant
cursorAt(c, i, now) ==
  IF i < Len(c.buckets) /\ c.buckets[i + 1].Time < now
  THEN c.buckets[i + 1].Time
  ELSE now

\* bucket i is taken by the walk from now over interval: it starts before the
\* cursor, and the cursor is still inside the window
taken(c, i, now, interval) ==
  /\ interval > 0
  /\ c.buckets[i].Time < cursorAt(c, i, now)
  /\ cursorAt(c, i, now) > now - interval

\* the window starts strictly after the start of bucket i, which the walk takes
partly(c, i, now, interval) ==
  taken(c, i, now, interval) /\ now - interval > c.buckets[i].Time

\* d2 at bucket i: from the window's start to the bucket's end or the cursor
d2At(c, i, now, interval) ==
  (IF c.buckets[i].Time + c.Interval > cursorAt(c, i, now)
   THEN cursorAt(c, i, now)
   ELSE c.buckets[i].Time + c.Interval) - (now - interval)

\* the walk ends at bucket i without taking it
endsAt(c, i, now, interval) ==
  /\ partly(c, i, now, interval)
  /\ (cursorAt(c, i, now) - c.buckets[i].Time) - d2At(c, i, now, interval) > c.Interval

\* what bucket i adds to the totals; a partly covered bucket adds its count
\* scaled by d2/d and the time from the window's start to the instant from
share(c, key, i, now, interval, from) ==
  IF ~taken(c, i, now, interval) \/ endsAt(c, i, now, interval)
  THEN [tc |-> RatInt(0), td |-> 0]
  ELSE IF partly(c, i, now, interval)
  THEN [tc |-> Rat(bucketQuery(c.buckets[i], key) * d2At(c, i, now, interval),
                   cursorAt(c, i, now) - c.buckets[i].Time),
        td |-> from - (now - interval)]
  ELSE [tc |-> RatInt(bucketQuery(c.buckets[i], key)),
        td |-> cursorAt(c, i, now) - c.buckets[i].Time]

\* the sum of the shares of buckets 1 .. i, the partly covered one measured
\* from the walk's instant (fromStart) or from the cursor
RECURSIVE shares(_, _, _, _, _, _)
shares(c, key, i, now, interval, fromStart) ==
  IF i = 0 THEN [tc |-> RatInt(0), td |-> 0]
  ELSE LET rest == shares(c, key, i - 1, now, interval, fromStart)
           own  == share(c, key, i, now, interval,
                         IF fromStart THEN now ELSE cursorAt(c, i, now))
       IN  [tc |-> RatAdd(rest.tc, own.tc), td |-> rest.td + own.td]

\* the totals a Query reports for the shares: nothing under one second
reported(t) == IF t.td < Second THEN [tc |-> RatInt(0), td |-> 0] ELSE t

\* C18 (as stated): a Query's totals are the buckets' shares, the partly
\* covered bucket adding its count scaled by d2/d and the duration
\* originalNow - intervalStart, originalNow being the instant the walk started
\* from.
C18_PartialFromWalkStart ==
  Rolling /\ last.op = "Query" /\ Len(rl.buckets) > 0 =>
    [tc |-> last.tc, td |-> last.td] =
      reported(shares(rl, last.key, Len(rl.buckets), last.now, last.interval, TRUE))

\* C18 (amended): a Query's totals are the buckets' shares, the partly covered
\* bucket adding its count scaled by d2/d and the duration cursor -
\* intervalStart, the cursor being the start of the newer bucket the walk took
\* just before (the walk's instant when it took none).
C18_PartialFromCursor ==
  Rolling /\ last.op = "Query" /\ Len(rl.buckets) > 0 =>
    [tc |-> last.tc, td |-> last.td] =
      reported(shares(rl, last.key, Len(rl.buckets), last.now, last.interval, FALSE))

\* a Query took a partly covered bucket after a newer one, so that the cursor
\* was no longer the walk's instant, and reported a duration
C18_Witness ==
  /\ Rolling
  /\ last.op = "Query"
  /\ last.td >= Second
  /\ \E i \in 1 .. Len(rl.buckets) :
       /\ partly(rl, i, last.now, last.interval)
       /\ ~endsAt(rl, i, last.now, last.interval)
       /\ cursorAt(rl, i, last.now) # last.now
       /\ bucketQuery(rl.buckets[i], last.key) > 0

\* ---- C19: where the rate walk breaks off ----

\* the span of bucket i reaches into the window of the walk from now over
\* interval
overlaps(c, i, now, interval) ==
  /\ c.buckets[i].Time < now
  /\ c.buckets[i].Time + c.Interval > now - interval

\* C19 (as stated): the walk of a Query breaks off only at a bucket that lies
\* entirely before the window, bucketStart + counter.interval <= intervalStart;
\* a bucket whose span overlaps the window is never discarded.  Stated for the
\* counters built with numIntervals >= 1.
C19_StopsOnlyBeforeWindow ==
  Rolling /\ last.op = "Query" /\ Len(rl.buckets) > 0 /\ rl.NumIntervals >= 1 =>
    \A i \in 1 .. Len(rl.buckets) :
      stopped(rl, last.key, last.now, last.interval, 0) = i =>
        /\ rl.buckets[i].Time + rl.Interval <= last.now - last.interval
        /\ ~overlaps(rl, i, last.now, last.interval)

\* C19 (amended): the walk of a Query breaks off at bucket i exactly when the
\* walk takes the bucket, the window starts strictly after the bucket's start,
\* the bucket's end is strictly before the cursor, and the two stretches of
\* [bucketStart, cursor) that d2 leaves out, from the bucket's start to the
\* window's start and from the bucket's end to the cursor, are together longer
\* than counter.interval; the bucket's span may overlap the window.
C19_StopsAcrossGap ==
  Rolling /\ last.op = "Query" /\ Len(rl.buckets) > 0 =>
    \A i \in 1 .. Len(rl.buckets) :
      stopped(rl, last.key, last.now, last.interval, 0) = i <=>
        /\ taken(rl, i, last.now, last.interval)
        /\ last.now - last.interval > rl.buckets[i].Time
        /\ rl.buckets[i].Time + rl.Interval < cursorAt(rl, i, last.now)
        /\ ((last.now - last.interval) - rl.buckets[i].Time)
             + (cursorAt(rl, i, last.now) - (rl.buckets[i].Time + rl.Interval))
             > rl.Interval

\* the walk of a Query broke off at a bucket whose span overlaps the window
C19_Witness ==
  /\ Rolling
  /\ last.op = "Query"
  /\ rl.NumIntervals >= 1
  /\ Len(rl.buckets) > 0
  /\ \E i \in 1 .. Len(rl.buckets) :
       /\ stopped(rl, last.key, last.now, last.interval, 0) = i
       /\ overlaps(rl, i, last.now, last.interval)

\* ---- C20: buckets at or after the cursor ----

\* the counter without the buckets that start at or after the instant now
olderThan(c, now) ==
  LET before_now(b) == b.Time < now
  IN  [c EXCEPT !.buckets = SelectSeq(c.buckets, before_now)]

\* the totals of the walk over the buckets that start before the walk's instant
olderTotals(c, key, now, interval) ==
  IF Len(olderThan(c, now).buckets) = 0
  THEN [tc |-> RatInt(0), td |-> 0]
  ELSE query(olderThan(c, now), key, now, interval, 0)

\* C20: when the newest bucket starts at or after the walk's instant (a Query
\* or Count at an instant before the newest buckets, or a Count that has just
\* opened its bucket), the buckets at or after the instant add nothing to the
\* totals and take nothing from the interval: the totals are those of the walk
\* over the older buckets alone.  The first Count on an empty counter returns
\* 0.
C20_SkipsLaterBuckets ==
  Rolling /\ last.op \in {"Query", "Count"} /\ Len(rl.buckets) > 0 =>
    /\ newest(rl).Time >= last.now =>
         [tc |-> last.tc, td |-> last.td] =
           olderTotals(rl, last.key, last.now, last.interval)
    /\ last.op = "Count" /\ before = <<>> =>
         /\ last.ret = RatInt(0)
         /\ last.td = 0

\* a Query at an instant before the newest bucket's start passed it over and
\* reported the count and the duration of an older bucket
C20_Witness ==
  /\ Rolling
  /\ last.op = "Query"
  /\ Len(rl.buckets) >= 2
  /\ newest(rl).Time > last.now
  /\ last.td >= Second
  /\ RatLess(RatInt(0), last.tc)

\* ---- C21: the levels of a rollup Query ----

\* d_1 + ... + d_i of a Query from now over interval: level j is walked from
\* now less the durations of the levels before it, over the interval less the
\* same, and reports d_j; a level met with nothing left of the interval reports
\* nothing
RECURSIVE spent(_, _, _, _, _)
spent(r, key, i, now, interval) ==
  IF i = 0 THEN 0
  ELSE The({ s + (IF interval - s <= 0 THEN 0
                  ELSE query(r.Levels[i], key, now - s, interval - s, 0).td) :
             s \in {spent(r, key, i - 1, now, interval)} })

\* n_1 + ... + n_i of the same Query
RECURSIVE gathered(_, _, _, _, _)
gathered(r, key, i, now, interval) ==
  IF i = 0 THEN RatInt(0)
  ELSE The({ RatAdd(gathered(r, key, i - 1, now, interval),
                    IF interval - s <= 0 THEN RatInt(0)
                    ELSE query(r.Levels[i], key, now - s, interval - s, 0).tc) :
             s \in {spent(r, key, i - 1, now, interval)} })

\* C21: in a rollup Query level i+1 is walked from now - (d_1 + ... + d_i) over
\* the interval less the same sum: the totals are the sums of what the levels
\* report when walked so, no level reports more than what is left of the
\* interval, the stretch of a level ends where the stretch of the level before
\* it begins, and the total duration is at most the interval asked for.
C21_LevelsDoNotOverlap ==
  Rollup /\ ctor = "ok" /\ last.op = "Query" =>
    /\ last.td = spent(rc, last.key, Len(rc.Levels), last.now, last.interval)
    /\ last.tc = gathered(rc, last.key, Len(rc.Levels), last.now, last.interval)
    /\ \A i \in 1 .. Len(rc.Levels) :
         /\ spent(rc, last.key, i, last.now, last.interval)
              >= spent(rc, last.key, i - 1, last.now, last.interval)
         /\ spent(rc, last.key, i, last.now, last.interval) <= last.interval
    /\ last.td <= last.interval

\* a Query of a rollup took a duration from its first level and a duration
\* from its second, walked from an earlier instant
C21_Witness ==
  /\ Rollup
  /\ ctor = "ok"
  /\ last.op = "Query"
  /\ Len(rc.Levels) >= 2
  /\ spent(rc, last.key, 1, last.now, last.interval) > 0
  /\ spent(rc, last.key, 2, last.now, last.interval)
       > spent(rc, last.key, 1, last.now, last.interval)
  /\ last.td = spent(rc, last.key, 2, last.now, last.interval)

\* ---- C22: a window reaching back to the oldest bucket ----

\* the sum of the estimates for key of the buckets 1 .. i that start before now
RECURSIVE estimates(_, _, _, _)
estimates(c, key, i, now) ==
  IF i = 0 THEN 0
  ELSE estimates(c, key, i - 1, now)
         + (IF c.buckets[i].Time < now THEN bucketQuery(c.buckets[i], key) ELSE 0)

\* C22: when the window of a Query or Count starts at or before the start of
\* the oldest bucket and now is at least one second after that start, the rate
\* is the sum of the estimates of the buckets started before now over the time
\* from the oldest bucket's start to now: every such bucket counts whole, for
\* the gap to the next newer bucket or to now, however long the gap.
C22_WholeSpanRate ==
  /\ Rolling
  /\ last.op \in {"Query", "Count"}
  /\ Len(rl.buckets) > 0
  /\ last.now - last.interval <= rl.buckets[1].Time
  /\ last.now - rl.buckets[1].Time >= Second
  => /\ last.tc = RatInt(estimates(rl, last.key, Len(rl.buckets), last.now))
     /\ last.td = last.now - rl.buckets[1].Time
     /\ last.ret =
          RatMul(Rat(estimates(rl, last.key, Len(rl.buckets), last.now),
                     last.now - rl.buckets[1].Time),
                 RatInt(Second))

\* a Query whose window reaches back to the oldest of two buckets counted a
\* bucket for a gap longer than the counter's interval
C22_Witness ==
  /\ Rolling
  /\ last.op = "Query"
  /\ Len(rl.buckets) >= 2
  /\ last.now - last.interval <= rl.buckets[1].Time
  /\ last.now - rl.buckets[1].Time >= Second
  /\ \E i \in 1 .. Len(rl.buckets) :
       /\ rl.buckets[i].Time < last.now
       /\ cursorAt(rl, i, last.now) - rl.buckets[i].Time > rl.Interval
  /\ RatLess(RatInt(0), last.tc)
  /\ last.td = last.now - rl.buckets[1].Time

\* ---- C23: the duration the rate walk reports ----

\* C23: the total duration a Query or Count of a rolling counter reports is 0,
\* or at least one second and at most the interval asked for.
C23_DurationWithinInterval ==
  Rolling /\ last.op \in {"Query", "Count"} =>
    \/ last.td = 0
    \/ last.td >= Second /\ last.td <= last.interval

\* a Query over two buckets, the older one partly covered, reported exactly the
\* interval asked for
C23_Witness ==
  /\ Rolling
  /\ last.op = "Query"
  /\ Len(rl.buckets) >= 2
  /\ last.td = last.interval
  /\ last.td > Second
  /\ \E i \in 1 .. Len(rl.buckets) :
       /\ partly(rl, i, last.now, last.interval)
       /\ ~endsAt(rl, i, last.now, last.interval)

\* ---- C24: what a bucket adds to the total count ----

\* the rolling counters in use: the one used on its own and the levels of the
\* rollup
Counters == {rl} \cup { rc.Levels[i] : i \in 1 .. Len(rc.Levels) }

\* what the loop of rollingCounter.query adds to the total count at bucket i of
\* counter c, in a walk from now over interval: the loop run on that bucket
\* alone, from the cursor the walk reaches it with
added(c, key, i, now, interval) ==
  walk([c EXCEPT !.buckets = <<c.buckets[i]>>], key, 1, cursorAt(c, i, now),
       cursorAt(c, i, now) - (now - interval), now - interval, 0,
       RatInt(0), 0).tc

\* x <= y for rationals
RatLeq(x, y) == ~RatLess(y, x)

\* C24: in the walk of the rolling counter, or of any level of the rollup,
\* from the instant and over the interval of a Count or Query, a bucket adds at
\* least 0 and at most its own estimate for the key, and less than its estimate
\* (d2/d < 1) when it is partly covered and holds the key; the totals and the
\* rate the call returns are not negative.
C24_NoNegativeRate ==
  last.op \in {"Query", "Count"} =>
    /\ \A c \in Counters :
         \A i \in 1 .. Len(c.buckets) :
           \E a \in {added(c, last.key, i, last.now, last.interval)},
              e \in {RatInt(bucketQuery(c.buckets[i], last.key))} :
                /\ RatLeq(RatInt(0), a)
                /\ RatLeq(a, e)
                /\ partly(c, i, last.now, last.interval) /\ RatLess(RatInt(0), e)
                     => RatLess(a, e)
    /\ RatLeq(RatInt(0), last.tc)
    /\ last.td >= 0
    /\ RatLeq(RatInt(0), last.ret)

\* a Query of a rolling counter returned a rate above 0 from a walk in which a
\* partly covered bucket added a part of its estimate, more than 0 and less
\* than the whole
C24_Witness ==
  /\ Rolling
  /\ rl.NumIntervals >= 1
  /\ last.op = "Query"
  /\ RatLess(RatInt(0), last.ret)
  /\ \E i \in 1 .. Len(rl.buckets) :
       /\ partly(rl, i, last.now, last.interval)
       /\ RatLess(RatInt(0), added(rl, last.key, i, last.now, last.interval))
       /\ RatLess(added(rl, last.key, i, last.now, last.interval),
                  RatInt(bucketQuery(rl.buckets[i], last.key)))

\* ---- C25: Count leaves the older buckets alone ----

\* the buckets of a counter other than its newest
older(bs) == SubSeq(bs, 1, Len(bs) - 1)

\* C25: a Count on a counter that held buckets changes no bucket but the
\* newest.  When it opens a bucket, every bucket there was and that is kept,
\* the newest there was among them, is as it was; when it opens none, also
\* because the clock moved backward into an older bucket's span, the older
\* buckets are as they were and the delta is counted on the newest.
C25_OlderBucketsFrozen ==
  Rolling /\ last.op = "Count" /\ Len(before) > 0 =>
    IF opens([rl EXCEPT !.buckets = before], last.now)
    THEN /\ older(rl.buckets) \in {before, Tail(before)}
         /\ newest(rl).Time = last.now
    ELSE /\ Len(rl.buckets) = Len(before)
         /\ older(rl.buckets) = older(before)
         /\ newest(rl) =
              bucketCount(before[Len(before)], last.key, last.delta).bucket

\* the clock moved backward into the span of the older of two buckets, which
\* holds counts, and the Count went to the newest bucket
C25_Witness ==
  /\ Rolling
  /\ last.op = "Count"
  /\ Len(before) = 2
  /\ last.now < before[2].Time
  /\ last.now >= before[1].Time
  /\ mass(before[1]) > 0
  /\ last.delta > 0
  /\ rl.buckets[1] = before[1]
  /\ bucketQuery(rl.buckets[2], last.key)
       = bucketQuery(before[2], last.key) + last.delta

=============================================================================
